---------------------------- MODULE Spec2Model ----------------------------
(***************************************************************************)
(* A model of the IntelliRouter Python SDK's chain-execution client stack: *)
(* the pydantic entity model (sdk/python/chains/models.py), the            *)
(* ChainClient operations (intellirouter/chains/api.py) and the            *)
(* HTTPTransport they run on (sdk/python/transport/http.py).               *)
(*                                                                         *)
(* JSON objects and Python dicts are functions from their keys to their    *)
(* values: a key that is absent is outside the DOMAIN, a key that is       *)
(* present with the value null/None maps to Null.  A Python argument that  *)
(* is None is outside the DOMAIN of the argument record.  Free-form        *)
(* mappings (inputs, outputs, config, data, condition) are opaque to the   *)
(* client and are the tokens EmptyMap and SomeMap.                         *)
(***************************************************************************)
EXTENDS Integers, Sequences, FiniteSets, TLC

VARIABLES
    op,       \* the ChainClient method invoked last ("none" before the first)
    args,     \* its arguments: argument name -> value, None arguments absent
    calls,    \* the transport calls made by this invocation, in order
    result,   \* what the invocation gave its caller: return / raise / generator
    gen,      \* the state of the generator a streaming invocation returned
    events,   \* the events the consumer of that generator has received
    http,     \* HTTPTransport's view of the exchange with the server
    cfg,      \* the Configuration constructed last, with what it was given
    clients   \* the IntelliRouter instances and their sub-clients

vars == <<op, args, calls, result, gen, events, http, cfg, clients>>

---------------------------------------------------------------------------
(* Values *)

Null == "<null>"
EmptyMap == "{}"
SomeMap == "{k:v}"

IsMap(v) == v \in {EmptyMap, SomeMap}
SomeFloat == "1.0"
IsStr(v) == v \notin {Null, EmptyMap, SomeMap, SomeFloat}
IsOptStr(v) == IsStr(v) \/ v = Null
IsOptFloat(v) == v \in {SomeFloat, Null}

\* f restricted to the keys in D
Restrict(f, D) == [k \in D |-> f[k]]

\* f with key k set to v (k added when absent)
With(f, k, v) == [x \in DOMAIN f \cup {k} |-> IF x = k THEN v ELSE f[x]]

\* f overridden and extended by g
Merge(f, g) ==
    [k \in DOMAIN f \cup DOMAIN g |-> IF k \in DOMAIN g THEN g[k] ELSE f[k]]

\* the empty dict / the empty list / no value
Empty == <<>>

---------------------------------------------------------------------------
(* Entity model: sdk/python/chains/models.py *)

StepFields == {"id", "type", "name", "description", "inputs", "outputs", "config"}
StepRequired == {"id", "type"}

\* the value a ChainStep field takes when the constructor is not given it
StepDefault(f) == IF f \in {"name", "description"} THEN Null ELSE EmptyMap

\* whether v is accepted for field f of ChainStep
StepFieldOk(f, v) ==
    CASE f \in {"id", "type"} -> IsStr(v)
      [] f \in {"name", "description"} -> IsStr(v) \/ v = Null
      [] OTHER -> IsMap(v)

\* ChainStep(**raw) succeeds
ChainStepValid(raw) ==
    /\ StepRequired \subseteq DOMAIN raw
    /\ \A f \in DOMAIN raw \cap StepFields : StepFieldOk(f, raw[f])

\* the entity ChainStep(**raw) constructs: every field, defaults filled in,
\* keys that are no field ignored
ChainStep(raw) ==
    [f \in StepFields |-> IF f \in DOMAIN raw THEN raw[f] ELSE StepDefault(f)]

DependencyFields == {"dependent_step", "required_step", "type", "condition"}
DependencyRequired == {"dependent_step", "required_step"}
DependencyTypes == {"simple", "conditional"}

DependencyDefault(f) == IF f = "type" THEN "simple" ELSE Null

DependencyFieldOk(f, v) ==
    CASE f \in {"dependent_step", "required_step"} -> IsStr(v)
      [] f = "type" -> v \in DependencyTypes
      [] OTHER -> IsMap(v) \/ v = Null

ChainDependencyValid(raw) ==
    /\ DependencyRequired \subseteq DOMAIN raw
    /\ \A f \in DOMAIN raw \cap DependencyFields : DependencyFieldOk(f, raw[f])

ChainDependency(raw) ==
    [f \in DependencyFields |->
        IF f \in DOMAIN raw THEN raw[f] ELSE DependencyDefault(f)]

\* Chain(**r) succeeds, for a mapping r: id is required, every step and every
\* dependency is validated in turn
ChainValid(r) ==
    LET D == DOMAIN r
    IN  /\ "id" \in D /\ IsStr(r.id)
        /\ "name" \in D => IsOptStr(r.name)
        /\ "description" \in D => IsOptStr(r.description)
        /\ "steps" \in D => \A k \in DOMAIN r.steps : ChainStepValid(r.steps[k])
        /\ "dependencies" \in D =>
               \A i \in DOMAIN r.dependencies :
                   ChainDependencyValid(r.dependencies[i])
        /\ "config" \in D => IsMap(r.config)

\* the entity Chain(**r) constructs
Chain(r) ==
    LET D == DOMAIN r
    IN  [id |-> r.id,
         name |-> IF "name" \in D THEN r.name ELSE Null,
         description |-> IF "description" \in D THEN r.description ELSE Null,
         steps |-> IF "steps" \in D
                   THEN [k \in DOMAIN r.steps |-> ChainStep(r.steps[k])]
                   ELSE Empty,
         dependencies |-> IF "dependencies" \in D
                          THEN [i \in DOMAIN r.dependencies |->
                                   ChainDependency(r.dependencies[i])]
                          ELSE Empty,
         config |-> IF "config" \in D THEN r.config ELSE EmptyMap]

StepResultValid(r) ==
    LET D == DOMAIN r
    IN  /\ "step_id" \in D /\ IsStr(r.step_id)
        /\ "outputs" \in D => IsMap(r.outputs)
        /\ "error" \in D => IsOptStr(r.error)
        /\ "execution_time" \in D => IsOptFloat(r.execution_time)

ChainExecutionStepResult(r) ==
    LET D == DOMAIN r
    IN  [step_id |-> r.step_id,
         outputs |-> IF "outputs" \in D THEN r.outputs ELSE EmptyMap,
         error |-> IF "error" \in D THEN r.error ELSE Null,
         execution_time |->
             IF "execution_time" \in D THEN r.execution_time ELSE Null]

ExecutionStatuses == {"running", "completed", "failed"}

ChainExecutionValid(r) ==
    LET D == DOMAIN r
    IN  /\ "chain_id" \in D /\ IsStr(r.chain_id)
        /\ "status" \in D /\ r.status \in ExecutionStatuses
        /\ "step_results" \in D =>
               \A k \in DOMAIN r.step_results : StepResultValid(r.step_results[k])
        /\ "outputs" \in D => IsMap(r.outputs)
        /\ "error" \in D => IsOptStr(r.error)
        /\ "execution_time" \in D => IsOptFloat(r.execution_time)

ChainExecution(r) ==
    LET D == DOMAIN r
    IN  [chain_id |-> r.chain_id,
         status |-> r.status,
         step_results |->
             IF "step_results" \in D
             THEN [k \in DOMAIN r.step_results |->
                      ChainExecutionStepResult(r.step_results[k])]
             ELSE Empty,
         outputs |-> IF "outputs" \in D THEN r.outputs ELSE EmptyMap,
         error |-> IF "error" \in D THEN r.error ELSE Null,
         execution_time |->
             IF "execution_time" \in D THEN r.execution_time ELSE Null]

\* the event types with one the enumeration does not have
EventTypesWithSkipped ==
    {"step_started", "step_completed", "step_failed", "chain_completed",
     "chain_failed", "step_skipped"}

EventTypes ==
    {"step_started", "step_completed", "step_failed", "chain_completed",
     "chain_failed"}

ChainExecutionEventValid(r) ==
    LET D == DOMAIN r
    IN  /\ "event_type" \in D /\ r.event_type \in EventTypes
        /\ "chain_id" \in D /\ IsStr(r.chain_id)
        /\ "step_id" \in D => IsOptStr(r.step_id)
        /\ "data" \in D => IsMap(r.data)

ChainExecutionEvent(r) ==
    LET D == DOMAIN r
    IN  [event_type |-> r.event_type,
         chain_id |-> r.chain_id,
         step_id |-> IF "step_id" \in D THEN r.step_id ELSE Null,
         data |-> IF "data" \in D THEN r.data ELSE EmptyMap]

\* a dict() that leaves out every Optional field, None or not
DictExcludeOptional(entity) ==
    Restrict(entity, {f \in DOMAIN entity :
                         f \notin {"name", "description", "condition"}})

\* model.dict(exclude_none=True): every field whose value is not None
DictExcludeNone(entity) ==
    Restrict(entity, {f \in DOMAIN entity : entity[f] # Null})

\* chain.dict(exclude_none=True) of a Chain entity: the steps and the
\* dependencies are serialized in the same way, name and description are left
\* out when they are None
ChainDict(chain) ==
    LET d == [f \in DOMAIN chain |->
                 CASE f = "steps" ->
                        [k \in DOMAIN chain.steps |-> DictExcludeNone(chain.steps[k])]
                   [] f = "dependencies" ->
                        [i \in DOMAIN chain.dependencies |->
                            DictExcludeNone(chain.dependencies[i])]
                   [] OTHER -> chain[f]]
    IN  Restrict(d, {f \in DOMAIN d :
                        f \in {"name", "description"} => d[f] # Null})

---------------------------------------------------------------------------
(* ChainClient: request construction, intellirouter/chains/api.py *)

\* A step or dependency argument element is a typed entity (kind "entity",
\* v the entity), a raw mapping (kind "dict", v the mapping) or anything
\* else (kind "other").
Ok(v) == [ok |-> TRUE, v |-> v]
Invalid == [ok |-> FALSE, v |-> Empty]

\* create's loop body without the conversion of a raw mapping to a ChainStep
create_step_unchecked(step) ==
    IF step.kind = "entity" THEN Ok(DictExcludeNone(step.v)) ELSE Ok(step.v)

\* create: the body of the loop over steps.items()
create_step(step) ==
    IF step.kind = "entity" THEN Ok(DictExcludeNone(step.v))
    ELSE IF step.kind = "dict"
         THEN IF ChainStepValid(step.v)
              THEN Ok(DictExcludeNone(ChainStep(step.v)))
              ELSE Invalid
         ELSE Invalid

\* create's loop over dependencies rejecting a self-loop
create_dependency_acyclic(dependency) ==
    IF dependency.kind = "entity" THEN Ok(DictExcludeNone(dependency.v))
    ELSE IF dependency.kind = "dict"
         THEN IF /\ ChainDependencyValid(dependency.v)
                 /\ dependency.v.dependent_step # dependency.v.required_step
              THEN Ok(DictExcludeNone(ChainDependency(dependency.v)))
              ELSE Invalid
         ELSE Invalid

\* create: the body of the loop over dependencies
create_dependency(dependency) ==
    IF dependency.kind = "entity" THEN Ok(DictExcludeNone(dependency.v))
    ELSE IF dependency.kind = "dict"
         THEN IF ChainDependencyValid(dependency.v)
              THEN Ok(DictExcludeNone(ChainDependency(dependency.v)))
              ELSE Invalid
         ELSE Invalid

\* create's data built from every parameter, None included
create_data_all_fields(a) ==
    Ok([k \in {"name", "description", "steps", "dependencies", "config"} |->
           IF k \in DOMAIN a THEN a[k] ELSE Null])

\* create: the request data, or Invalid when an element raised ValidationError
create_data(a) ==
    LET D == DOMAIN a
        stepsOk == "steps" \in D =>
                       \A k \in DOMAIN a.steps : create_step(a.steps[k]).ok
        depsOk == "dependencies" \in D =>
                      \A i \in DOMAIN a.dependencies :
                          create_dependency(a.dependencies[i]).ok
        keys == {"name"} \cup
                (D \cap {"description", "steps", "dependencies", "config"})
    IN  IF ~(stepsOk /\ depsOk) THEN Invalid
        ELSE Ok([k \in keys |->
                  CASE k = "steps" ->
                         [s \in DOMAIN a.steps |-> create_step(a.steps[s]).v]
                    [] k = "dependencies" ->
                         [i \in DOMAIN a.dependencies |->
                             create_dependency(a.dependencies[i]).v]
                    [] OTHER -> a[k]])

\* update's loop over steps sending a valid raw mapping as it was supplied
update_step_as_supplied(step) ==
    IF step.kind = "entity" THEN Ok(DictExcludeNone(step.v))
    ELSE IF step.kind = "dict"
         THEN IF ChainStepValid(step.v) THEN Ok(step.v) ELSE Invalid
         ELSE Invalid

\* update: the body of the loop over steps.items()
update_step(step) ==
    IF step.kind = "entity" THEN Ok(DictExcludeNone(step.v))
    ELSE IF step.kind = "dict"
         THEN IF ChainStepValid(step.v)
              THEN Ok(DictExcludeNone(ChainStep(step.v)))
              ELSE Invalid
         ELSE Invalid

\* update: the body of the loop over dependencies
update_dependency(dependency) ==
    IF dependency.kind = "entity" THEN Ok(DictExcludeNone(dependency.v))
    ELSE IF dependency.kind = "dict"
         THEN IF ChainDependencyValid(dependency.v)
              THEN Ok(DictExcludeNone(ChainDependency(dependency.v)))
              ELSE Invalid
         ELSE Invalid

\* update's data built from every parameter, None included
update_data_all_fields(a) ==
    Ok([k \in {"name", "description", "steps", "dependencies", "config"} |->
           IF k \in DOMAIN a THEN a[k] ELSE Null])

\* update: the request data, or Invalid when an element raised ValidationError
update_data(a) ==
    LET D == DOMAIN a
        stepsOk == "steps" \in D =>
                       \A k \in DOMAIN a.steps : update_step(a.steps[k]).ok
        depsOk == "dependencies" \in D =>
                      \A i \in DOMAIN a.dependencies :
                          update_dependency(a.dependencies[i]).ok
        keys == D \cap {"name", "description", "steps", "dependencies", "config"}
    IN  IF ~(stepsOk /\ depsOk) THEN Invalid
        ELSE Ok([k \in keys |->
                  CASE k = "steps" ->
                         [s \in DOMAIN a.steps |-> update_step(a.steps[s]).v]
                    [] k = "dependencies" ->
                         [i \in DOMAIN a.dependencies |->
                             update_dependency(a.dependencies[i]).v]
                    [] OTHER -> a[k]])

\* acreate: the body of the loop over steps.items()
acreate_step(step) ==
    IF step.kind = "entity" THEN Ok(DictExcludeNone(step.v))
    ELSE IF step.kind = "dict"
         THEN IF ChainStepValid(step.v)
              THEN Ok(DictExcludeNone(ChainStep(step.v)))
              ELSE Invalid
         ELSE Invalid

\* acreate: the body of the loop over dependencies
acreate_dependency(dependency) ==
    IF dependency.kind = "entity" THEN Ok(DictExcludeNone(dependency.v))
    ELSE IF dependency.kind = "dict"
         THEN IF ChainDependencyValid(dependency.v)
              THEN Ok(DictExcludeNone(ChainDependency(dependency.v)))
              ELSE Invalid
         ELSE Invalid

\* acreate: the request data, or Invalid when an element raised ValidationError
acreate_data(a) ==
    LET D == DOMAIN a
        stepsOk == "steps" \in D =>
                       \A k \in DOMAIN a.steps : acreate_step(a.steps[k]).ok
        depsOk == "dependencies" \in D =>
                      \A i \in DOMAIN a.dependencies :
                          acreate_dependency(a.dependencies[i]).ok
        keys == {"name"} \cup
                (D \cap {"description", "steps", "dependencies", "config"})
    IN  IF ~(stepsOk /\ depsOk) THEN Invalid
        ELSE Ok([k \in keys |->
                  CASE k = "steps" ->
                         [s \in DOMAIN a.steps |-> acreate_step(a.steps[s]).v]
                    [] k = "dependencies" ->
                         [i \in DOMAIN a.dependencies |->
                             acreate_dependency(a.dependencies[i]).v]
                    [] OTHER -> a[k]])

\* aupdate: the body of the loop over steps.items()
aupdate_step(step) ==
    IF step.kind = "entity" THEN Ok(DictExcludeNone(step.v))
    ELSE IF step.kind = "dict"
         THEN IF ChainStepValid(step.v)
              THEN Ok(DictExcludeNone(ChainStep(step.v)))
              ELSE Invalid
         ELSE Invalid

\* aupdate: the body of the loop over dependencies
aupdate_dependency(dependency) ==
    IF dependency.kind = "entity" THEN Ok(DictExcludeNone(dependency.v))
    ELSE IF dependency.kind = "dict"
         THEN IF ChainDependencyValid(dependency.v)
              THEN Ok(DictExcludeNone(ChainDependency(dependency.v)))
              ELSE Invalid
         ELSE Invalid

\* aupdate: the request data, or Invalid when an element raised ValidationError
aupdate_data(a) ==
    LET D == DOMAIN a
        stepsOk == "steps" \in D =>
                       \A k \in DOMAIN a.steps : aupdate_step(a.steps[k]).ok
        depsOk == "dependencies" \in D =>
                      \A i \in DOMAIN a.dependencies :
                          aupdate_dependency(a.dependencies[i]).ok
        keys == D \cap {"name", "description", "steps", "dependencies", "config"}
    IN  IF ~(stepsOk /\ depsOk) THEN Invalid
        ELSE Ok([k \in keys |->
                  CASE k = "steps" ->
                         [s \in DOMAIN a.steps |-> aupdate_step(a.steps[s]).v]
                    [] k = "dependencies" ->
                         [i \in DOMAIN a.dependencies |->
                             aupdate_dependency(a.dependencies[i]).v]
                    [] OTHER -> a[k]])

---------------------------------------------------------------------------
(* Exceptions (intellirouter/exceptions.py), transport outcomes, results *)

\* an exception object: its class, its status_code attribute (<<>> is None)
\* and its message, in parts
Exc(cls, status_code, message) ==
    [cls |-> cls, status_code |-> status_code, message |-> message]
NoExc == Exc("", <<>>, <<>>)

\* APIError.__init__(message, status_code=None), inherited by its subclasses
APIError(cls, message, status_code) == Exc(cls, status_code, message)

\* ValidationError(message): plain Exception, no status_code
ValidationError(message) == Exc("ValidationError", <<>>, <<message>>)

APIErrorClasses == {"APIError", "AuthenticationError", "RateLimitError", "ServerError"}
Taxonomy == APIErrorClasses \cup {"ValidationError", "ConfigurationError"}

\* a decoded JSON document: an object, an array or null
Object(f) == [t |-> "object", v |-> f]
Array(s) == [t |-> "array", items |-> s]
JNull == [t |-> "null"]

\* what a call of the transport does: it returns a JSON document or raises
Returned(json) == [k |-> "return", exc |-> NoExc, json |-> json]
Raised(exc) == [k |-> "raise", exc |-> exc, json |-> JNull]

\* what a ChainClient method gives its caller
Return(v) == [k |-> "return", exc |-> NoExc, v |-> v]
Raise(exc) == [k |-> "raise", exc |-> exc, v |-> Empty]
Generator == [k |-> "generator", exc |-> NoExc, v |-> Empty]
NoResult == [k |-> "none", exc |-> NoExc, v |-> Empty]

---------------------------------------------------------------------------
(* ChainClient: response handling, intellirouter/chains/api.py *)

\* create: "Parse the response" of an outcome o of transport.request; an
\* exception of the transport is not caught
create_response(o) ==
    IF o.k = "raise" THEN Raise(o.exc)
    ELSE IF o.json.t = "object" /\ ChainValid(o.json.v)
         THEN Return(Chain(o.json.v))
         ELSE Raise(ValidationError("Invalid chain response"))

get_response(o) ==
    IF o.k = "raise" THEN Raise(o.exc)
    ELSE IF o.json.t = "object" /\ ChainValid(o.json.v)
         THEN Return(Chain(o.json.v))
         ELSE Raise(ValidationError("Invalid chain response"))

update_response(o) ==
    IF o.k = "raise" THEN Raise(o.exc)
    ELSE IF o.json.t = "object" /\ ChainValid(o.json.v)
         THEN Return(Chain(o.json.v))
         ELSE Raise(ValidationError("Invalid chain response"))

\* list with the transport call inside the try of the response parsing
list_response_wrapping(o) ==
    IF /\ o.k = "return"
       /\ o.json.t = "object"
       /\ "chains" \in DOMAIN o.json.v
       /\ \A i \in DOMAIN o.json.v.chains : ChainValid(o.json.v.chains[i])
    THEN Return([i \in DOMAIN o.json.v.chains |-> Chain(o.json.v.chains[i])])
    ELSE Raise(ValidationError("Invalid chain list response"))

\* list: [Chain(**chain) for chain in response["chains"]]
list_response(o) ==
    IF o.k = "raise" THEN Raise(o.exc)
    ELSE IF /\ o.json.t = "object"
            /\ "chains" \in DOMAIN o.json.v
            /\ \A i \in DOMAIN o.json.v.chains : ChainValid(o.json.v.chains[i])
         THEN Return([i \in DOMAIN o.json.v.chains |-> Chain(o.json.v.chains[i])])
         ELSE Raise(ValidationError("Invalid chain list response"))

\* delete: the response is dropped and None returned
delete_response(o) ==
    IF o.k = "raise" THEN Raise(o.exc) ELSE Return(Empty)

run_response(o) ==
    IF o.k = "raise" THEN Raise(o.exc)
    ELSE IF o.json.t = "object" /\ ChainExecutionValid(o.json.v)
         THEN Return(ChainExecution(o.json.v))
         ELSE Raise(ValidationError("Invalid chain execution response"))

\* the keyword arguments of one transport call
Call(fn, method, path) == [fn |-> fn, method |-> method, path |-> path]

create_call(data) == With(Call("request", "POST", <<"v1", "chains">>), "data", data)
get_call(a) == Call("request", "GET", <<"v1", "chains", a.chain_id>>)
update_call(a, data) ==
    With(Call("request", "PATCH", <<"v1", "chains", a.chain_id>>), "data", data)
delete_call(a) == Call("request", "DELETE", <<"v1", "chains", a.chain_id>>)

\* list leaving out a limit or offset that is falsy (`if offset:`)
list_call_truthy(a) ==
    With(Call("request", "GET", <<"v1", "chains">>), "params",
         Restrict(a, {k \in DOMAIN a \cap {"limit", "offset"} : a[k] # "0"}))

\* list: params holds limit and offset when they are not None
list_call(a) ==
    With(Call("request", "GET", <<"v1", "chains">>), "params",
         Restrict(a, DOMAIN a \cap {"limit", "offset"}))

\* run and stream: inputs, stream, and config when it is not None
run_data(a, stream) ==
    [k \in {"inputs", "stream"} \cup (DOMAIN a \cap {"config"}) |->
        IF k = "stream" THEN stream ELSE a[k]]

run_call(a) ==
    With(Call("request", "POST", <<"v1", "chains", a.chain_id, "run">>), "data",
         run_data(a, "false"))

\* acreate: "Parse the response" of an outcome o of transport.arequest; an
\* exception of the transport is not caught
acreate_response(o) ==
    IF o.k = "raise" THEN Raise(o.exc)
    ELSE IF o.json.t = "object" /\ ChainValid(o.json.v)
         THEN Return(Chain(o.json.v))
         ELSE Raise(ValidationError("Invalid chain response"))

aget_response(o) ==
    IF o.k = "raise" THEN Raise(o.exc)
    ELSE IF o.json.t = "object" /\ ChainValid(o.json.v)
         THEN Return(Chain(o.json.v))
         ELSE Raise(ValidationError("Invalid chain response"))

aupdate_response(o) ==
    IF o.k = "raise" THEN Raise(o.exc)
    ELSE IF o.json.t = "object" /\ ChainValid(o.json.v)
         THEN Return(Chain(o.json.v))
         ELSE Raise(ValidationError("Invalid chain response"))

\* alist leaving out the elements that are no chain
alist_response_skipping(o) ==
    IF o.k = "raise" THEN Raise(o.exc)
    ELSE IF o.json.t = "object" /\ "chains" \in DOMAIN o.json.v
         THEN LET good == SelectSeq(o.json.v.chains, ChainValid)
              IN  Return([i \in DOMAIN good |-> Chain(good[i])])
         ELSE Raise(ValidationError("Invalid chain list response"))

\* alist: [Chain(**chain) for chain in response["chains"]]
alist_response(o) ==
    IF o.k = "raise" THEN Raise(o.exc)
    ELSE IF /\ o.json.t = "object"
            /\ "chains" \in DOMAIN o.json.v
            /\ \A i \in DOMAIN o.json.v.chains : ChainValid(o.json.v.chains[i])
         THEN Return([i \in DOMAIN o.json.v.chains |-> Chain(o.json.v.chains[i])])
         ELSE Raise(ValidationError("Invalid chain list response"))

\* adelete: the response is dropped and None returned
adelete_response(o) ==
    IF o.k = "raise" THEN Raise(o.exc) ELSE Return(Empty)

arun_response(o) ==
    IF o.k = "raise" THEN Raise(o.exc)
    ELSE IF o.json.t = "object" /\ ChainExecutionValid(o.json.v)
         THEN Return(ChainExecution(o.json.v))
         ELSE Raise(ValidationError("Invalid chain execution response"))

acreate_call(data) == With(Call("arequest", "POST", <<"v1", "chains">>), "data", data)
aget_call(a) == Call("arequest", "GET", <<"v1", "chains", a.chain_id>>)
aupdate_call(a, data) ==
    With(Call("arequest", "PATCH", <<"v1", "chains", a.chain_id>>), "data", data)
adelete_call(a) == Call("arequest", "DELETE", <<"v1", "chains", a.chain_id>>)

\* alist: params holds limit and offset when they are not None
alist_call(a) ==
    With(Call("arequest", "GET", <<"v1", "chains">>), "params",
         Restrict(a, DOMAIN a \cap {"limit", "offset"}))

\* arun's data without the config
arun_data_without_config(a, stream) ==
    [k \in {"inputs", "stream"} |-> IF k = "stream" THEN stream ELSE a[k]]

\* arun and astream: inputs, stream, and config when it is not None
arun_data(a, stream) ==
    [k \in {"inputs", "stream"} \cup (DOMAIN a \cap {"config"}) |->
        IF k = "stream" THEN stream ELSE a[k]]

arun_call(a) ==
    With(Call("arequest", "POST", <<"v1", "chains", a.chain_id, "run">>), "data",
         arun_data(a, "false"))

---------------------------------------------------------------------------
(* Bounded inputs *)

\* a call supplies at most MaxElements steps and dependencies in total
MaxElements == 2

\* an optional argument over S: <<>> when it is None, <<v>> when it is v
Opt(S) == {<<>>} \cup {<<v>> : v \in S}

\* the argument record of optional arguments o: name -> <<>> or <<v>>
Supplied(o) == [k \in {x \in DOMAIN o : o[x] # <<>>} |-> o[k][1]]

ChainIds == {"test-chain-id", "c2"}

\* a step with every field set, as in the tests' create call plus a config
FullStep ==
    [id |-> "step1", type |-> "llm", name |-> "Test Step",
     description |-> "A test step", inputs |-> SomeMap, outputs |-> SomeMap,
     config |-> SomeMap]
MinStep == Restrict(FullStep, StepRequired)

\* raw step mappings: the full one, the tests' one (no config), the minimal
\* one, one without id, one without type, and the minimal one with a null
\* name and with an empty config
RawSteps ==
    {Restrict(FullStep, StepFields \ D) :
        D \in {{}, {"config"}, {"id"}, {"type"}, StepFields \ StepRequired}}
    \cup {With(MinStep, "name", Null), With(MinStep, "config", EmptyMap)}

\* typed ChainStep entities the caller constructed
StepEntities == {ChainStep(FullStep), ChainStep(MinStep)}

StepElements ==
    {[kind |-> "dict", v |-> r] : r \in RawSteps}
    \cup {[kind |-> "entity", v |-> e] : e \in StepEntities}
    \cup {[kind |-> "other", v |-> Empty]}

\* the keys of a steps argument: the step's own id and another key
StepKeys == {"step1", "k2"}

\* the steps arguments with n entries
StepsOfSize(n) ==
    UNION {[K -> StepElements] : K \in {X \in SUBSET StepKeys : Cardinality(X) = n}}

FullDependency ==
    [dependent_step |-> "step2", required_step |-> "step1",
     type |-> "conditional", condition |-> SomeMap]
MinDependency == Restrict(FullDependency, DependencyRequired)

\* raw dependency mappings: the full one, a conditional one without
\* condition, the minimal one, one without dependent_step, one of an unknown
\* type, a self-loop and the reverse edge (a cycle with the minimal one)
RawDependencies ==
    {Restrict(FullDependency, DependencyFields \ D) :
        D \in {{}, {"condition"}, {"type", "condition"}, {"dependent_step"}}}
    \cup {With(MinDependency, "type", "bogus"),
          With(MinDependency, "dependent_step", "step1"),
          [dependent_step |-> "step1", required_step |-> "step2"]}

DependencyEntities == {ChainDependency(MinDependency)}

DependencyElements ==
    {[kind |-> "dict", v |-> r] : r \in RawDependencies}
    \cup {[kind |-> "entity", v |-> e] : e \in DependencyEntities}
    \cup {[kind |-> "other", v |-> Empty]}

DependenciesOfSize(n) == [1..n -> DependencyElements]

\* the steps and dependencies arguments of one call, each None or supplied
StepsAndDependencies ==
    UNION {Opt(StepsOfSize(n)) \X Opt(DependenciesOfSize(m)) :
              <<n, m>> \in {x \in (0..MaxElements) \X (0..MaxElements) :
                               x[1] + x[2] <= MaxElements}}

CreateArgs ==
    {Merge([name |-> "Test Chain"],
           Supplied([description |-> d, steps |-> sd[1], dependencies |-> sd[2],
                     config |-> c])) :
        d \in Opt({"A test chain"}), c \in Opt({SomeMap}),
        sd \in StepsAndDependencies}

UpdateArgs ==
    {Merge([chain_id |-> id],
           Supplied([name |-> n, description |-> d, steps |-> sd[1],
                     dependencies |-> sd[2], config |-> c])) :
        id \in {"test-chain-id"}, n \in Opt({"Test Chain"}),
        d \in Opt({"Updated description"}), c \in Opt({SomeMap}),
        sd \in StepsAndDependencies}

GetArgs == {[chain_id |-> id] : id \in ChainIds}

ListArgs ==
    {Supplied([limit |-> l, offset |-> o]) : l \in Opt({"10"}), o \in Opt({"0", "20"})}

\* run's arguments; stream defaults to False
RunArgs ==
    {Merge([chain_id |-> id, inputs |-> SomeMap, stream |-> st],
           Supplied([config |-> c])) :
        id \in ChainIds, st \in {"false", "true"}, c \in Opt({SomeMap})}

StreamArgs ==
    {Merge([chain_id |-> id, inputs |-> SomeMap], Supplied([config |-> c])) :
        id \in ChainIds, c \in Opt({SomeMap})}

\* chain documents a server may answer with: the tests' mock response, a
\* minimal one, one without id, one whose step has no type
GoodChain ==
    [id |-> "test-chain-id", name |-> "Test Chain", description |-> "A test chain",
     steps |-> [step1 |-> With(FullStep, "config", EmptyMap)],
     dependencies |-> <<MinDependency>>]
MinChain == [id |-> "c1"]
NoIdChain == Restrict(GoodChain, DOMAIN GoodChain \ {"id"})
BadStepChain == With(GoodChain, "steps", [step1 |-> Restrict(FullStep, StepFields \ {"type"})])

\* a chain whose dependency is conditional and has no condition
UnconditionedChain ==
    With(GoodChain, "dependencies", <<With(MinDependency, "type", "conditional")>>)

ChainDocuments ==
    {Object(GoodChain), Object(MinChain), Object(NoIdChain), Object(BadStepChain),
     Object(UnconditionedChain), Array(<<GoodChain>>)}

ListDocuments ==
    {Object([chains |-> cs]) :
        cs \in {<<>>, <<GoodChain>>, <<MinChain, GoodChain>>, <<GoodChain, NoIdChain>>}}
    \cup {Object(Empty), Array(<<GoodChain>>)}

GoodExecution ==
    [chain_id |-> "test-chain-id", status |-> "completed",
     step_results |-> [step1 |-> [step_id |-> "step1", outputs |-> SomeMap]],
     outputs |-> SomeMap, execution_time |-> SomeFloat]

\* execution documents: a completed, a running and a failed one, one of an
\* unknown status, one without chain_id, and the tests' mock (its step result
\* has no step_id)
ExecutionDocuments ==
    {Object(GoodExecution),
     Object([chain_id |-> "c1", status |-> "running"]),
     Object([chain_id |-> "c1", status |-> "failed", error |-> "boom"]),
     Object(With(GoodExecution, "status", "cancelled")),
     Object(Restrict(GoodExecution, DOMAIN GoodExecution \ {"chain_id"})),
     Object(With(GoodExecution, "step_results", [step1 |-> [outputs |-> SomeMap]]))}

---------------------------------------------------------------------------
(* Configuration: sdk/python/config/settings.py *)

ConfigFields == {"api_key", "base_url", "timeout", "max_retries"}
IntFields == {"timeout", "max_retries"}

\* the defaults of os.environ.get in Configuration.__init__
ConfigDefault(f) ==
    CASE f = "api_key" -> ""
      [] f = "base_url" -> "http://localhost:8000"
      [] f = "timeout" -> "60"
      [] f = "max_retries" -> "3"

\* int(s) of the decimal strings that occur
IntOf == ("0" :> 0) @@ ("3" :> 3) @@ ("5" :> 5) @@ ("30" :> 30) @@ ("60" :> 60)

\* not v: the empty string, the number 0
Falsy(f, v) == IF f \in IntFields THEN v = 0 ELSE v = ""

\* Configuration.__init__, one field: `f or os.environ.get(NAME, default)`,
\* through int() for timeout and max_retries
from_argument_or_environment(f, explicit, env) ==
    IF f \in DOMAIN explicit /\ ~Falsy(f, explicit[f]) THEN explicit[f]
    ELSE LET s == IF f \in DOMAIN env THEN env[f] ELSE ConfigDefault(f)
         IN  IF f \in IntFields THEN IntOf[s] ELSE s

\* Configuration._load_from_file on the values v: a field of the file is
\* taken when the value so far is falsy
load_from_file(v, file) ==
    [f \in ConfigFields |->
        IF file.exists /\ f \in DOMAIN file.data /\ Falsy(f, v[f])
        THEN file.data[f]
        ELSE v[f]]

\* the fields of Configuration(**explicit) in the environment env with the
\* config file file
Configuration(explicit, env, file) ==
    load_from_file(
        [f \in ConfigFields |-> from_argument_or_environment(f, explicit, env)],
        file)

NoFile == [exists |-> FALSE, data |-> Empty]
File(data) == [exists |-> TRUE, data |-> data]

\* no Configuration has been constructed
NoConfiguration ==
    [made |-> FALSE, explicit |-> Empty, env |-> Empty, file |-> NoFile,
     v |-> Empty]

---------------------------------------------------------------------------
(* IntelliRouter: sdk/python/client.py *)

Clients == {"client1", "client2"}

ConfigurationError == Exc("ConfigurationError", <<>>, <<"API key is required">>)

\* a sub-client: its class, the transport it holds, the IntelliRouter that
\* made it and which construction of that accessor it is; None
SubClient(cls, transport, owner, n) ==
    [cls |-> cls, transport |-> transport, owner |-> owner, n |-> n]
NoObject == SubClient("", "", "", 0)

\* the HTTPTransport that the IntelliRouter self constructs
HTTPTransport(self) == "HTTPTransport of " \o self

\* no IntelliRouter; its name, what it was given, its config and transport, whether it
\* constructed an HTTPTransport, its memoized sub-clients, how often each was
\* constructed, the number of accesses and what the last access returned
NoClient ==
    [state |-> "none", self |-> "", exc |-> NoExc, given |-> Empty, config |-> Empty,
     transport |-> "", constructed |-> FALSE,
     chat |-> NoObject, chains |-> NoObject, models |-> NoObject,
     made |-> [a \in {"chat", "chains", "models"} |-> 0],
     accesses |-> 0, returned |-> NoObject]

\* IntelliRouter.__init__(self, **g.args, config, transport) in the
\* environment g.env with the config file g.file
IntelliRouter(self, g) ==
    LET config == IF Len(g.config) = 1 THEN g.config[1]
                  ELSE Configuration(g.args, g.env, g.file)
    IN  IF config.api_key = ""
        THEN [NoClient EXCEPT !.state = "raised", !.self = self,
                              !.exc = ConfigurationError,
                              !.given = g, !.config = config]
        ELSE [NoClient EXCEPT
                 !.state = "ready", !.self = self, !.given = g, !.config = config,
                 !.transport = IF Len(g.transport) = 1 THEN g.transport[1]
                               ELSE HTTPTransport(self),
                 !.constructed = (Len(g.transport) = 0)]

\* the chat property of the IntelliRouter c
IntelliRouter_chat(c) ==
    LET made == c.chat = NoObject
        sub == IF made
               THEN SubClient("ChatClient", c.transport, c.self, c.made.chat + 1)
               ELSE c.chat
    IN  [c EXCEPT !.chat = sub, !.returned = sub, !.accesses = @ + 1,
                  !.made.chat = IF made THEN @ + 1 ELSE @]

\* the chains property building a ChainClient on every access
IntelliRouter_chains_unmemoized(c) ==
    LET sub == SubClient("ChainClient", c.transport, c.self, c.made.chains + 1)
    IN  [c EXCEPT !.chains = sub, !.returned = sub, !.accesses = @ + 1,
                  !.made.chains = @ + 1]

\* the chains property of the IntelliRouter c
IntelliRouter_chains(c) ==
    LET made == c.chains = NoObject
        sub == IF made
               THEN SubClient("ChainClient", c.transport, c.self, c.made.chains + 1)
               ELSE c.chains
    IN  [c EXCEPT !.chains = sub, !.returned = sub, !.accesses = @ + 1,
                  !.made.chains = IF made THEN @ + 1 ELSE @]

\* the models property of the IntelliRouter c
IntelliRouter_models(c) ==
    LET made == c.models = NoObject
        sub == IF made
               THEN SubClient("ModelClient", c.transport, c.self, c.made.models + 1)
               ELSE c.models
    IN  [c EXCEPT !.models = sub, !.returned = sub, !.accesses = @ + 1,
                  !.made.models = IF made THEN @ + 1 ELSE @]

---------------------------------------------------------------------------
(* A transport that is not HTTPTransport (the tests' mock): a call returns any
   document or raises any APIError *)

MockRaises == {Raised(APIError(cls, <<"mock">>, <<>>)) : cls \in APIErrorClasses}
MockRequest(docs) == {Returned(j) : j \in docs} \cup MockRaises

\* the answers to a create or update call: any of them to a call without steps
\* and dependencies, the tests' document or an APIError to the others
MockRequestFor(a) ==
    IF DOMAIN a \cap {"steps", "dependencies"} = {}
    THEN MockRequest(ChainDocuments)
    ELSE {Returned(Object(GoodChain)), Raised(APIError("APIError", <<"mock">>, <<>>))}

\* a generator: its state, the function it runs, the frames the transport
\* gave it, whether the transport's sequence is open, ended or raised and the
\* exception it raised, the number of next() calls and what the last one gave,
\* and whether its consumer still consumes it
NoGen ==
    [state |-> "none", fn |-> "", frames |-> <<>>, source |-> "open",
     exc |-> NoExc, pulls |-> 0, last |-> NoResult, consumer |-> "consuming"]

\* what is known of the HTTP exchange behind the transport call: the transport
\* function, the exchange, the function's outcome, whether a released
\* response could still be read, the server-sent events read so far, and the
\* streamed response of HTTPTransport.stream: none, open, consumed (its body
\* was read to the end) or closed
NoHTTP ==
    [used |-> FALSE, fn |-> "", x |-> Empty, o |-> Raised(NoExc), read |-> "",
     sse |-> <<>>, response |-> "none"]

Init ==
    /\ op = "none"
    /\ args = Empty
    /\ calls = <<>>
    /\ result = NoResult
    /\ gen = NoGen
    /\ events = <<>>
    /\ http = NoHTTP
    /\ cfg = NoConfiguration
    /\ clients = [c \in Clients |-> NoClient]

\* ChainClient.create(**a) on a transport whose request call does o
create_(a, o) ==
    LET data == create_data(a)
    IN  /\ op' = "create"
        /\ args' = a
        /\ IF data.ok
           THEN /\ calls' = <<create_call(data.v)>>
                /\ result' = create_response(o)
           ELSE /\ calls' = <<>>
                /\ result' = Raise(ValidationError("Invalid chain step or dependency"))
        /\ UNCHANGED <<gen, events>>

\* get calling the transport a second time when it raised
get_retrying(a, o) ==
    /\ op' = "get"
    /\ args' = a
    /\ calls' = IF o.k = "raise" THEN <<get_call(a), get_call(a)>>
                ELSE <<get_call(a)>>
    /\ result' = get_response(o)
    /\ UNCHANGED <<gen, events>>

get_(a, o) ==
    /\ op' = "get"
    /\ args' = a
    /\ calls' = <<get_call(a)>>
    /\ result' = get_response(o)
    /\ UNCHANGED <<gen, events>>

list_(a, o) ==
    /\ op' = "list"
    /\ args' = a
    /\ calls' = <<list_call(a)>>
    /\ result' = list_response(o)
    /\ UNCHANGED <<gen, events>>

update_(a, o) ==
    LET data == update_data(a)
    IN  /\ op' = "update"
        /\ args' = a
        /\ IF data.ok
           THEN /\ calls' = <<update_call(a, data.v)>>
                /\ result' = update_response(o)
           ELSE /\ calls' = <<>>
                /\ result' = Raise(ValidationError("Invalid chain step or dependency"))
        /\ UNCHANGED <<gen, events>>

delete_(a, o) ==
    /\ op' = "delete"
    /\ args' = a
    /\ calls' = <<delete_call(a)>>
    /\ result' = delete_response(o)
    /\ UNCHANGED <<gen, events>>

\* ChainClient.acreate(**a) on a transport whose arequest call does o
acreate_(a, o) ==
    LET data == acreate_data(a)
    IN  /\ op' = "acreate"
        /\ args' = a
        /\ IF data.ok
           THEN /\ calls' = <<acreate_call(data.v)>>
                /\ result' = acreate_response(o)
           ELSE /\ calls' = <<>>
                /\ result' = Raise(ValidationError("Invalid chain step or dependency"))
        /\ UNCHANGED <<gen, events>>

aget_(a, o) ==
    /\ op' = "aget"
    /\ args' = a
    /\ calls' = <<aget_call(a)>>
    /\ result' = aget_response(o)
    /\ UNCHANGED <<gen, events>>

alist_(a, o) ==
    /\ op' = "alist"
    /\ args' = a
    /\ calls' = <<alist_call(a)>>
    /\ result' = alist_response(o)
    /\ UNCHANGED <<gen, events>>

aupdate_(a, o) ==
    LET data == aupdate_data(a)
    IN  /\ op' = "aupdate"
        /\ args' = a
        /\ IF data.ok
           THEN /\ calls' = <<aupdate_call(a, data.v)>>
                /\ result' = aupdate_response(o)
           ELSE /\ calls' = <<>>
                /\ result' = Raise(ValidationError("Invalid chain step or dependency"))
        /\ UNCHANGED <<gen, events>>

adelete_(a, o) ==
    /\ op' = "adelete"
    /\ args' = a
    /\ calls' = <<adelete_call(a)>>
    /\ result' = adelete_response(o)
    /\ UNCHANGED <<gen, events>>

\* run making its request before it looks at stream
run_eager(a, o) ==
    /\ op' = "run"
    /\ args' = a
    /\ calls' = <<run_call(a)>>
    /\ IF a.stream = "true"
       THEN /\ result' = Generator
            /\ gen' = [NoGen EXCEPT !.state = "created", !.fn = "stream"]
       ELSE /\ result' = run_response(o)
            /\ gen' = NoGen
    /\ UNCHANGED events

\* ChainClient.run(**a): with stream it returns self.stream(...), a generator
\* whose body has not started; else one request
run_(a, o) ==
    /\ op' = "run"
    /\ args' = a
    /\ IF a.stream = "true"
       THEN /\ calls' = <<>>
            /\ result' = Generator
            /\ gen' = [NoGen EXCEPT !.state = "created", !.fn = "stream"]
       ELSE /\ calls' = <<run_call(a)>>
            /\ result' = run_response(o)
            /\ gen' = NoGen
    /\ UNCHANGED events

\* stream calling the transport when it is called
stream_eager(a) ==
    /\ op' = "stream"
    /\ args' = a
    /\ calls' = <<Call("stream", "POST", <<"v1", "chains", a.chain_id, "run">>)>>
    /\ result' = Generator
    /\ gen' = [NoGen EXCEPT !.state = "created", !.fn = "stream"]
    /\ UNCHANGED events

\* ChainClient.stream(**a): a generator function; the call runs none of it
stream_(a) ==
    /\ op' = "stream"
    /\ args' = a
    /\ calls' = <<>>
    /\ result' = Generator
    /\ gen' = [NoGen EXCEPT !.state = "created", !.fn = "stream"]
    /\ UNCHANGED events

stream_call(a) ==
    With(Call("stream", "POST", <<"v1", "chains", a.chain_id, "run">>), "data",
         run_data(a, "true"))

\* what one step of the transport's stream gives the loop in stream: a frame,
\* the end of the sequence, or an exception
Frame(f) == [k |-> "frame", exc |-> NoExc, f |-> f]
EndOfStream == [k |-> "end", exc |-> NoExc, f |-> Empty]
StreamRaised(exc) == [k |-> "raise", exc |-> exc, f |-> Empty]

Yield(v) == [k |-> "yield", exc |-> NoExc, v |-> v]
StopIteration == [k |-> "stop", exc |-> NoExc, v |-> Empty]

\* stream's loop body yielding the frame itself
stream_event_raw(f) == Yield(f)

\* stream: the body of the loop over the transport's frames, for a frame f
stream_event(f) ==
    IF ChainExecutionEventValid(f)
    THEN Yield(ChainExecutionEvent(f))
    ELSE Raise(ValidationError("Invalid chain execution event"))

\* next() on the generator of stream, the transport's stream giving item: the
\* first next() runs the body up to the transport call; each next() takes one
\* item from the transport and yields its event, or ends, or raises
stream_next(item) ==
    /\ gen.state \in {"created", "suspended"}
    /\ gen.fn = "stream"
    /\ calls' = IF gen.state = "created"
                THEN Append(calls, stream_call(args)) ELSE calls
    /\ CASE item.k = "frame" ->
              LET r == stream_event(item.f)
              IN  /\ events' = IF r.k = "yield" THEN Append(events, r.v) ELSE events
                  /\ gen' = [gen EXCEPT
                               !.state = IF r.k = "yield" THEN "suspended"
                                         ELSE "finished",
                               !.frames = Append(@, item.f),
                               !.pulls = @ + 1,
                               !.last = r]
         [] item.k = "end" ->
              /\ events' = events
              /\ gen' = [gen EXCEPT !.state = "finished", !.source = "ended",
                                    !.pulls = @ + 1, !.last = StopIteration]
         [] item.k = "raise" ->
              /\ events' = events
              /\ gen' = [gen EXCEPT !.state = "finished", !.source = "raised",
                                    !.exc = item.exc, !.pulls = @ + 1,
                                    !.last = Raise(item.exc)]
    /\ UNCHANGED <<op, args, result>>

\* next() on a generator that has finished: StopIteration, nothing runs
exhausted_next ==
    /\ gen.state = "finished"
    /\ gen.consumer = "consuming"
    /\ gen.last # StopIteration
    /\ gen' = [gen EXCEPT !.pulls = @ + 1, !.last = StopIteration]
    /\ UNCHANGED <<op, args, calls, result, events, http>>
    /\ UNCHANGED <<cfg, clients>>

\* ChainClient.arun(**a): with stream it returns self.astream(...), an async
\* generator whose body has not started; else one request
arun_(a, o) ==
    /\ op' = "arun"
    /\ args' = a
    /\ IF a.stream = "true"
       THEN /\ calls' = <<>>
            /\ result' = Generator
            /\ gen' = [NoGen EXCEPT !.state = "created", !.fn = "astream"]
       ELSE /\ calls' = <<arun_call(a)>>
            /\ result' = arun_response(o)
            /\ gen' = NoGen
    /\ UNCHANGED events

\* ChainClient.astream(**a): an async generator function; the call runs none of it
astream_(a) ==
    /\ op' = "astream"
    /\ args' = a
    /\ calls' = <<>>
    /\ result' = Generator
    /\ gen' = [NoGen EXCEPT !.state = "created", !.fn = "astream"]
    /\ UNCHANGED events

astream_call(a) ==
    With(Call("astream", "POST", <<"v1", "chains", a.chain_id, "run">>), "data",
         arun_data(a, "true"))

\* astream: the body of the loop over the transport's frames, for a frame f
astream_event(f) ==
    IF ChainExecutionEventValid(f)
    THEN Yield(ChainExecutionEvent(f))
    ELSE Raise(ValidationError("Invalid chain execution event"))

\* __anext__() on the generator of astream, the transport's astream giving item: the
\* first next() runs the body up to the transport call; each next() takes one
\* item from the transport and yields its event, or ends, or raises
astream_next(item) ==
    /\ gen.state \in {"created", "suspended"}
    /\ gen.fn = "astream"
    /\ calls' = IF gen.state = "created"
                THEN Append(calls, astream_call(args)) ELSE calls
    /\ CASE item.k = "frame" ->
              LET r == astream_event(item.f)
              IN  /\ events' = IF r.k = "yield" THEN Append(events, r.v) ELSE events
                  /\ gen' = [gen EXCEPT
                               !.state = IF r.k = "yield" THEN "suspended"
                                         ELSE "finished",
                               !.frames = Append(@, item.f),
                               !.pulls = @ + 1,
                               !.last = r]
         [] item.k = "end" ->
              /\ events' = events
              /\ gen' = [gen EXCEPT !.state = "finished", !.source = "ended",
                                    !.pulls = @ + 1, !.last = StopIteration]
         [] item.k = "raise" ->
              /\ events' = events
              /\ gen' = [gen EXCEPT !.state = "finished", !.source = "raised",
                                    !.exc = item.exc, !.pulls = @ + 1,
                                    !.last = Raise(item.exc)]
    /\ UNCHANGED <<op, args, result>>

---------------------------------------------------------------------------
(* The ChainClient on a transport that is not HTTPTransport *)

\* a stream yields at most MaxFrames frames
MaxFrames == 3

\* frames: a step event, a chain event (no step_id), and three malformed
\* ones: no event_type, no chain_id (the tests' mock event), unknown type
StepFrame ==
    [event_type |-> "step_completed", chain_id |-> "c1", step_id |-> "step1",
     data |-> SomeMap]
ChainFrame == [event_type |-> "chain_completed", chain_id |-> "c1", data |-> SomeMap]
GoodFrames == {StepFrame, ChainFrame}
BadFrames ==
    {Restrict(StepFrame, DOMAIN StepFrame \ {"event_type"}),
     Restrict(StepFrame, DOMAIN StepFrame \ {"chain_id"}),
     With(ChainFrame, "event_type", "step_skipped")}

MockStreamRaises == {StreamRaised(r.exc) : r \in MockRaises}
MockStream ==
    {Frame(f) : f \in IF Len(gen.frames) < MaxFrames
                      THEN GoodFrames \cup BadFrames ELSE {}}
    \cup {EndOfStream} \cup MockStreamRaises

\* a method is invoked when no invocation is being observed
Idle == op = "none"

\* the transport is not called
NotCalled == Raised(NoExc)

\* a transport that is not HTTPTransport has done o
Mocked(o) == [NoHTTP EXCEPT !.o = o]

create ==
    /\ Idle
    /\ \E a \in CreateArgs :
          IF create_data(a).ok
          THEN \E o \in MockRequestFor(a) : create_(a, o) /\ http' = Mocked(o)
          ELSE create_(a, NotCalled) /\ http' = Mocked(NotCalled)
    /\ UNCHANGED <<cfg, clients>>

get ==
    /\ Idle
    /\ \E a \in GetArgs, o \in MockRequest(ChainDocuments) :
          get_(a, o) /\ http' = Mocked(o)
    /\ UNCHANGED <<cfg, clients>>

list ==
    /\ Idle
    /\ \E a \in ListArgs, o \in MockRequest(ListDocuments) :
          list_(a, o) /\ http' = Mocked(o)
    /\ UNCHANGED <<cfg, clients>>

update ==
    /\ Idle
    /\ \E a \in UpdateArgs :
          IF update_data(a).ok
          THEN \E o \in MockRequestFor(a) : update_(a, o) /\ http' = Mocked(o)
          ELSE update_(a, NotCalled) /\ http' = Mocked(NotCalled)
    /\ UNCHANGED <<cfg, clients>>

delete ==
    /\ Idle
    /\ \E a \in GetArgs, o \in MockRequest({JNull, Object(Empty)}) :
          delete_(a, o) /\ http' = Mocked(o)
    /\ UNCHANGED <<cfg, clients>>

run ==
    /\ Idle
    /\ \E a \in RunArgs :
          IF a.stream = "true" THEN run_(a, NotCalled) /\ http' = Mocked(NotCalled)
          ELSE \E o \in MockRequest(ExecutionDocuments) :
                run_(a, o) /\ http' = Mocked(o)
    /\ UNCHANGED <<cfg, clients>>

stream ==
    /\ Idle
    /\ \E a \in StreamArgs : stream_(a)
    /\ UNCHANGED http
    /\ UNCHANGED <<cfg, clients>>

next ==
    /\ \E item \in MockStream : stream_next(item)
    /\ UNCHANGED http
    /\ UNCHANGED <<cfg, clients>>

acreate ==
    /\ Idle
    /\ \E a \in CreateArgs :
          IF acreate_data(a).ok
          THEN \E o \in MockRequestFor(a) : acreate_(a, o) /\ http' = Mocked(o)
          ELSE acreate_(a, NotCalled) /\ http' = Mocked(NotCalled)
    /\ UNCHANGED <<cfg, clients>>

aget ==
    /\ Idle
    /\ \E a \in GetArgs, o \in MockRequest(ChainDocuments) :
          aget_(a, o) /\ http' = Mocked(o)
    /\ UNCHANGED <<cfg, clients>>

alist ==
    /\ Idle
    /\ \E a \in ListArgs, o \in MockRequest(ListDocuments) :
          alist_(a, o) /\ http' = Mocked(o)
    /\ UNCHANGED <<cfg, clients>>

aupdate ==
    /\ Idle
    /\ \E a \in UpdateArgs :
          IF aupdate_data(a).ok
          THEN \E o \in MockRequestFor(a) : aupdate_(a, o) /\ http' = Mocked(o)
          ELSE aupdate_(a, NotCalled) /\ http' = Mocked(NotCalled)
    /\ UNCHANGED <<cfg, clients>>

adelete ==
    /\ Idle
    /\ \E a \in GetArgs, o \in MockRequest({JNull, Object(Empty)}) :
          adelete_(a, o) /\ http' = Mocked(o)
    /\ UNCHANGED <<cfg, clients>>

arun ==
    /\ Idle
    /\ \E a \in RunArgs :
          IF a.stream = "true" THEN arun_(a, NotCalled) /\ http' = Mocked(NotCalled)
          ELSE \E o \in MockRequest(ExecutionDocuments) :
                arun_(a, o) /\ http' = Mocked(o)
    /\ UNCHANGED <<cfg, clients>>

astream ==
    /\ Idle
    /\ \E a \in StreamArgs : astream_(a)
    /\ UNCHANGED http
    /\ UNCHANGED <<cfg, clients>>

anext ==
    /\ \E item \in MockStream : astream_next(item)
    /\ UNCHANGED http
    /\ UNCHANGED <<cfg, clients>>

\* the caller is done with the result; the client keeps nothing of the call
Done ==
    /\ op # "none"
    /\ op' = "none"
    /\ args' = Empty
    /\ calls' = <<>>
    /\ result' = NoResult
    /\ gen' = NoGen
    /\ events' = <<>>
    /\ http' = NoHTTP
    /\ UNCHANGED <<cfg, clients>>

Next ==
    \/ create \/ get \/ list \/ update \/ delete \/ run \/ stream \/ next
    \/ acreate \/ aget \/ alist \/ aupdate \/ adelete \/ arun \/ astream \/ anext
    \/ exhausted_next \/ Done

Spec == Init /\ [][Next]_vars

---------------------------------------------------------------------------
(* HTTPTransport: sdk/python/transport/http.py *)

\* a JSON string inside a document
Str(s) == [t |-> "string", s |-> s]

\* a response body: a JSON document, text that is no JSON, or nothing
JsonBody(doc) == [kind |-> "json", doc |-> doc, text |-> ""]
TextBody(text) == [kind |-> "text", doc |-> JNull, text |-> text]
EmptyBody == [kind |-> "empty", doc |-> JNull, text |-> ""]

\* one HTTP exchange: the connection fails, or the server answers with a
\* status, a content type (JSON or not) and a body
Failed == [net |-> "fail", status |-> 0, ctype |-> "", body |-> EmptyBody]
Answer(status, ctype, body) ==
    [net |-> "ok", status |-> status, ctype |-> ctype, body |-> body]

\* exceptions that are not the library's
AttributeError == Exc("AttributeError", <<>>, <<>>)
JSONDecodeError == Exc("JSONDecodeError", <<>>, <<>>)
ContentTypeError == Exc("ContentTypeError", <<>>, <<>>)
ClientConnectionError == Exc("ClientConnectionError", <<>>, <<"Connection closed">>)
RequestFailed == APIError("APIError", <<"Request failed">>, <<>>)

\* error_data.get("error", {}).get("message", "Unknown error") on a decoded
\* document: the message, or AttributeError when the document or its error
\* has no get
error_message(doc) ==
    IF doc.t # "object" THEN Raised(AttributeError)
    ELSE IF "error" \notin DOMAIN doc.v THEN Returned(Str("Unknown error"))
    ELSE IF doc.v.error.t # "object" THEN Raised(AttributeError)
    ELSE IF "message" \notin DOMAIN doc.v.error.v THEN Returned(Str("Unknown error"))
    ELSE Returned(Str(doc.v.error.v.message))

\* the raise at the end of both error handlers: the class by the status, the
\* status passed to plain APIError only
raise_for_status(status, message) ==
    IF status = 401
    THEN APIError("AuthenticationError", <<"Authentication failed", message>>, <<>>)
    ELSE IF status = 429
    THEN APIError("RateLimitError", <<"Rate limit exceeded", message>>, <<>>)
    ELSE IF status >= 500
    THEN APIError("ServerError", <<"Server error", message>>, <<>>)
    ELSE APIError("APIError", <<"API error", message>>, <<status>>)

\* _handle_error_response: the exception that leaves it. response.json()
\* raises JSONDecodeError on text and on an empty body, which is caught
handle_error_response(x) ==
    IF x.body.kind = "json"
    THEN LET m == error_message(x.body.doc)
         IN  IF m.k = "raise" THEN m.exc
             ELSE raise_for_status(x.status, m.json.s)
    ELSE raise_for_status(x.status,
                          IF x.body.text # "" THEN x.body.text ELSE "Unknown error")

\* _ahandle_error_response: the exception that leaves it. aiohttp's json()
\* raises ContentTypeError when the content type is not JSON, returns None for
\* an empty body and raises JSONDecodeError, which is caught, on text
ahandle_error_response(x) ==
    IF x.ctype # "json" THEN ContentTypeError
    ELSE IF x.body.kind = "empty" THEN AttributeError
    ELSE IF x.body.kind = "text" THEN raise_for_status(x.status, x.body.text)
    ELSE LET m == error_message(x.body.doc)
         IN  IF m.k = "raise" THEN m.exc
             ELSE raise_for_status(x.status, m.json.s)

\* HTTPTransport.request without stream: the outcomes of an exchange x. A
\* RequestException becomes APIError; response.json() on a body that is no
\* JSON raises a RequestException from requests 2.27 on and a plain
\* JSONDecodeError before
request(x) ==
    IF x.net = "fail" THEN {Raised(RequestFailed)}
    ELSE IF x.status >= 400 THEN {Raised(handle_error_response(x))}
    ELSE IF x.body.kind = "json" THEN {Returned(x.body.doc)}
    ELSE {Raised(RequestFailed), Raised(JSONDecodeError)}

\* HTTPTransport.arequest without stream: the outcomes of an exchange x. A
\* ClientError, ContentTypeError included, becomes APIError
arequest(x) ==
    IF x.net = "fail" THEN {Raised(RequestFailed)}
    ELSE IF x.status >= 400
    THEN IF ahandle_error_response(x) = ContentTypeError
         THEN {Raised(RequestFailed)}
         ELSE {Raised(ahandle_error_response(x))}
    ELSE IF x.ctype # "json" THEN {Raised(RequestFailed)}
    ELSE IF x.body.kind = "json" THEN {Returned(x.body.doc)}
    ELSE IF x.body.kind = "empty" THEN {Returned(JNull)}
    ELSE {Raised(JSONDecodeError)}

\* the response is open and its events can be read
Opened == Returned(JNull)

\* HTTPTransport.stream up to its loop: request(stream=True) returns the
\* response whatever its status, then the status is checked
stream_open(x) ==
    IF x.net = "fail" THEN Raised(RequestFailed)
    ELSE IF x.status >= 400 THEN Raised(handle_error_response(x))
    ELSE Opened

\* HTTPTransport.astream up to its loop: arequest(stream=True) returns the
\* response out of both of its async with blocks, so the response is released
\* and the session closed; reading the released response raises
\* ClientConnectionError unless the payload was read (read is "closed" or
\* "buffered")
astream_open(x, read) ==
    IF x.net = "fail" THEN Raised(RequestFailed)
    ELSE IF read = "closed" THEN Raised(ClientConnectionError)
    ELSE IF x.status >= 400 THEN Raised(ahandle_error_response(x))
    ELSE Opened

\* one server-sent event: data that is a JSON object, data that is no JSON,
\* the [DONE] sentinel, or the end of the response
DataEvent(f) == [kind |-> "data", f |-> f]
InvalidEvent == [kind |-> "invalid", f |-> Empty]
DoneEvent == [kind |-> "done", f |-> Empty]
EndOfResponse == [kind |-> "eof", f |-> Empty]

\* HTTPTransport.stream: the body of the loop over client.events(), and the
\* end of the loop
stream_item(e) ==
    CASE e.kind = "data" -> Frame(e.f)
      [] e.kind = "invalid" ->
             StreamRaised(APIError("APIError", <<"Invalid JSON in stream">>, <<>>))
      [] e.kind = "done" -> EndOfStream
      [] e.kind = "eof" -> EndOfStream

\* HTTPTransport.astream: the body of the loop over response.content, and
\* the end of the loop
astream_item(e) ==
    CASE e.kind = "data" -> Frame(e.f)
      [] e.kind = "invalid" ->
             StreamRaised(APIError("APIError", <<"Invalid JSON in stream">>, <<>>))
      [] e.kind = "done" -> EndOfStream
      [] e.kind = "eof" -> EndOfStream

---------------------------------------------------------------------------
(* The ChainClient on HTTPTransport *)

Statuses == {200, 204, 400, 401, 404, 429, 500, 503}

\* error documents: error.message, the transport tests' shape (error is a
\* string), no error, an error without message, and a document that is a list
ErrorDocuments ==
    {Object([error |-> Object([message |-> "Invalid API key"])]),
     Object([error |-> Str("Invalid API key")]),
     Object(Empty),
     Object([error |-> Object(Empty)]),
     Array(<<>>)}

Bodies ==
    {JsonBody(d) : d \in {Object(GoodChain), Object(NoIdChain)} \cup ErrorDocuments}
    \cup {TextBody("<html>Bad Gateway</html>"), EmptyBody}

Exchanges ==
    {Failed} \cup
    {Answer(s, c, b) : s \in Statuses, c \in {"json", "other"}, b \in Bodies}

\* the exchanges of a streaming call: an answer of status 200 is an event
\* stream
StreamExchanges ==
    {x \in Exchanges : x.net = "fail" \/ x.status >= 400}
    \cup {Answer(200, "other", EmptyBody)}

SSEEvents ==
    {DataEvent(f) : f \in IF Len(gen.frames) < MaxFrames
                          THEN GoodFrames \cup BadFrames ELSE {}}
    \cup {InvalidEvent, DoneEvent, EndOfResponse}

Exchanged(fn, x, o) == [NoHTTP EXCEPT !.used = TRUE, !.fn = fn, !.x = x, !.o = o]

get_http ==
    /\ Idle
    /\ \E a \in GetArgs, x \in Exchanges :
          \E o \in request(x) :
              /\ get_(a, o)
              /\ http' = Exchanged("request", x, o)
    /\ UNCHANGED <<cfg, clients>>

aget_http ==
    /\ Idle
    /\ \E a \in GetArgs, x \in Exchanges :
          \E o \in arequest(x) :
              /\ aget_(a, o)
              /\ http' = Exchanged("arequest", x, o)
    /\ UNCHANGED <<cfg, clients>>

delete_http ==
    /\ Idle
    /\ \E a \in GetArgs, x \in Exchanges :
          \E o \in request(x) :
              /\ delete_(a, o)
              /\ http' = Exchanged("request", x, o)
    /\ UNCHANGED <<cfg, clients>>

adelete_http ==
    /\ Idle
    /\ \E a \in GetArgs, x \in Exchanges :
          \E o \in arequest(x) :
              /\ adelete_(a, o)
              /\ http' = Exchanged("arequest", x, o)
    /\ UNCHANGED <<cfg, clients>>

stream_http ==
    /\ Idle
    /\ \E a \in StreamArgs : stream_(a)
    /\ http' = Exchanged("stream", Empty, NotCalled)
    /\ UNCHANGED <<cfg, clients>>

\* the streamed response after HTTPTransport.stream failed before its loop:
\* there is none when the connection failed; the error handler has read the
\* body of an answer of status >= 400 to its end. stream never calls
\* response.close()
stream_response_unread(x) == IF x.net = "fail" THEN "none" ELSE "consumed"

\* the streamed response after the event e was read, finished telling whether
\* the generators have finished and collected whether the response object,
\* which only they refer to, has been collected since: at the end of the
\* body the response is consumed; while a generator is suspended it is open;
\* after [DONE], an invalid frame or a ValidationError it is open until it
\* is collected. stream never calls response.close()
stream_response(e, finished, collected) ==
    IF e.kind = "eof" THEN "consumed"
    ELSE IF finished /\ collected THEN "closed"
    ELSE "open"

\* next() on the generator of ChainClient.stream over HTTPTransport.stream:
\* the first one makes the exchange
next_http ==
    /\ gen.fn = "stream"
    /\ gen.state \in {"created", "suspended"}
    /\ gen.consumer = "consuming"
    /\ IF gen.state = "created"
       THEN \E x \in StreamExchanges :
               IF stream_open(x).k = "raise"
               THEN /\ stream_next(StreamRaised(stream_open(x).exc))
                    /\ http' = [http EXCEPT !.x = x, !.o = stream_open(x),
                                            !.response = stream_response_unread(x)]
               ELSE \E e \in SSEEvents, collected \in BOOLEAN :
                       /\ stream_next(stream_item(e))
                       /\ http' = [http EXCEPT
                                      !.x = x, !.o = Opened, !.sse = <<e>>,
                                      !.response = stream_response(
                                          e, gen'.state = "finished", collected)]
       ELSE \E e \in SSEEvents, collected \in BOOLEAN :
               /\ stream_next(stream_item(e))
               /\ http' = [http EXCEPT
                              !.sse = Append(@, e),
                              !.response = stream_response(
                                  e, gen'.state = "finished", collected)]
    /\ UNCHANGED <<cfg, clients>>

astream_http ==
    /\ Idle
    /\ \E a \in StreamArgs : astream_(a)
    /\ http' = Exchanged("astream", Empty, NotCalled)
    /\ UNCHANGED <<cfg, clients>>

\* __anext__() on the generator of ChainClient.astream over
\* HTTPTransport.astream: the first one makes the exchange
anext_http ==
    /\ gen.fn = "astream"
    /\ gen.state \in {"created", "suspended"}
    /\ gen.consumer = "consuming"
    /\ IF gen.state = "created"
       THEN \E x \in StreamExchanges, read \in {"closed", "buffered"} :
               IF astream_open(x, read).k = "raise"
               THEN /\ astream_next(StreamRaised(astream_open(x, read).exc))
                    /\ http' = [http EXCEPT !.x = x, !.read = read,
                                            !.o = astream_open(x, read)]
               ELSE \E e \in SSEEvents :
                       /\ astream_next(astream_item(e))
                       /\ http' = [http EXCEPT !.x = x, !.read = read, !.o = Opened,
                                               !.sse = <<e>>]
       ELSE \E e \in SSEEvents :
               /\ astream_next(astream_item(e))
               /\ http' = [http EXCEPT !.sse = Append(@, e)]
    /\ UNCHANGED <<cfg, clients>>

\* the consumer of ChainClient.astream stops consuming while the generator is
\* suspended at its yield. No statement of ChainClient.astream or of
\* HTTPTransport.astream runs then: neither has a finally block or closes the
\* other. When the generator objects are collected, the event loop's
\* finalizer throws GeneratorExit into them and they finish; while the
\* consumer keeps the generator they stay suspended.
abandon_http ==
    /\ gen.fn = "astream"
    /\ gen.state = "suspended"
    /\ gen.consumer = "consuming"
    /\ \E collected \in BOOLEAN :
          gen' = IF collected
                 THEN [gen EXCEPT !.consumer = "stopped", !.state = "finished",
                                  !.source = "closed"]
                 ELSE [gen EXCEPT !.consumer = "stopped"]
    /\ UNCHANGED <<op, args, calls, result, events, http>>
    /\ UNCHANGED <<cfg, clients>>

\* the consumer of ChainClient.stream stops consuming while the generator is
\* suspended at its yield. No statement of ChainClient.stream or of
\* HTTPTransport.stream runs then, and neither has a finally block. While the
\* consumer keeps the generator the response stays open; when the generator
\* objects are collected, so is the response.
abandon_stream_http ==
    /\ gen.fn = "stream"
    /\ gen.state = "suspended"
    /\ gen.consumer = "consuming"
    /\ \E collected \in BOOLEAN :
          /\ gen' = IF collected
                    THEN [gen EXCEPT !.consumer = "stopped", !.state = "finished",
                                     !.source = "closed"]
                    ELSE [gen EXCEPT !.consumer = "stopped"]
          /\ http' = [http EXCEPT !.response = IF collected THEN "closed" ELSE @]
    /\ UNCHANGED <<op, args, calls, result, events>>
    /\ UNCHANGED <<cfg, clients>>

NextHTTP ==
    \/ get_http \/ aget_http \/ delete_http \/ adelete_http
    \/ stream_http \/ next_http \/ astream_http \/ anext_http
    \/ abandon_http \/ abandon_stream_http
    \/ exhausted_next \/ Done

SpecHTTP == Init /\ [][NextHTTP]_vars

---------------------------------------------------------------------------
(* Configuration and IntelliRouter in an environment *)

\* an IntelliRouter is accessed at most MaxAccesses times
MaxAccesses == 2

\* the tests' values: explicit arguments, environment variables, config file
FullExplicit ==
    [api_key |-> "explicit-api-key", base_url |-> "http://explicit-url.com",
     timeout |-> 10, max_retries |-> 1]
FullEnvironment ==
    [api_key |-> "test-api-key", base_url |-> "http://test-url.com",
     timeout |-> "30", max_retries |-> "5"]
FullFile ==
    [api_key |-> "file-api-key", base_url |-> "http://file-url.com",
     timeout |-> 20, max_retries |-> 4]

Explicits == {Restrict(FullExplicit, K) : K \in SUBSET ConfigFields}

\* environments: any of the variables set, INTELLIROUTER_MAX_RETRIES also to 0
Environments ==
    {Restrict(FullEnvironment, K) : K \in SUBSET ConfigFields}
    \cup {With(Restrict(FullEnvironment, K), "max_retries", "0") :
             K \in SUBSET (ConfigFields \ {"max_retries"})}

\* no config file, or one with any of the fields
Files == {NoFile} \cup {File(Restrict(FullFile, K)) : K \in SUBSET ConfigFields}

\* Configuration objects a caller hands to IntelliRouter: one made where no
\* key was to be found, one made with an explicit key
SuppliedConfigurations ==
    {Configuration(Empty, Empty, NoFile),
     Configuration([api_key |-> "config-api-key", timeout |-> 10], Empty, NoFile)}

\* what an IntelliRouter is constructed with: the second one always with a key
ClientInputs(c) ==
    IF c = "client1"
    THEN {[args |-> a, config |-> cf, transport |-> t, env |-> e, file |-> f] :
             a \in {Empty, [api_key |-> "explicit-api-key"]},
             cf \in Opt(SuppliedConfigurations),
             t \in Opt({"custom transport"}),
             e \in {Empty, [api_key |-> "test-api-key"]},
             f \in {NoFile, File([api_key |-> "file-api-key"])}}
    ELSE {[args |-> [api_key |-> "explicit-api-key"], config |-> <<>>,
           transport |-> t, env |-> Empty, file |-> NoFile] :
             t \in Opt({"custom transport"})}

NoClients == \A c \in Clients : clients[c].state = "none"
ChainsUnused == UNCHANGED <<op, args, calls, result, gen, events, http>>

new_Configuration ==
    /\ Idle
    /\ ~cfg.made
    /\ NoClients
    /\ \E explicit \in Explicits, env \in Environments, file \in Files :
          cfg' = [made |-> TRUE, explicit |-> explicit, env |-> env, file |-> file,
                  v |-> Configuration(explicit, env, file)]
    /\ UNCHANGED clients
    /\ ChainsUnused

new_IntelliRouter ==
    /\ Idle
    /\ ~cfg.made
    /\ \E c \in Clients :
          /\ clients[c].state = "none"
          /\ \E g \in ClientInputs(c) :
                clients' = [clients EXCEPT ![c] = IntelliRouter(c, g)]
    /\ UNCHANGED cfg
    /\ ChainsUnused

CanAccess(c) == clients[c].state = "ready" /\ clients[c].accesses < MaxAccesses

get_chat ==
    /\ \E c \in Clients :
          /\ CanAccess(c)
          /\ clients' = [clients EXCEPT ![c] = IntelliRouter_chat(clients[c])]
    /\ UNCHANGED cfg
    /\ ChainsUnused

get_chains ==
    /\ \E c \in Clients :
          /\ CanAccess(c)
          /\ clients' = [clients EXCEPT ![c] = IntelliRouter_chains(clients[c])]
    /\ UNCHANGED cfg
    /\ ChainsUnused

get_models ==
    /\ \E c \in Clients :
          /\ CanAccess(c)
          /\ clients' = [clients EXCEPT ![c] = IntelliRouter_models(clients[c])]
    /\ UNCHANGED cfg
    /\ ChainsUnused

\* the objects are dropped
DoneClient ==
    /\ cfg.made \/ ~NoClients
    /\ cfg' = NoConfiguration
    /\ clients' = [c \in Clients |-> NoClient]
    /\ ChainsUnused

NextClient ==
    \/ new_Configuration \/ new_IntelliRouter
    \/ get_chat \/ get_chains \/ get_models
    \/ DoneClient

SpecClient == Init /\ [][NextClient]_vars

----------------------------------------------------------------------------
(* Properties of the ChainClient on any transport (specification Spec) *)

\* a step element that violates the entity contract: a raw mapping without id
\* or type, or an element that is neither an entity nor a mapping
InvalidStepElement(e) ==
    \/ e.kind = "other"
    \/ e.kind = "dict" /\ ~({"id", "type"} \subseteq DOMAIN e.v)

\* a dependency element that violates the entity contract: a raw mapping
\* without dependent_step or required_step or of a type outside
\* {simple, conditional}, or an element that is neither an entity nor a mapping
InvalidDependencyElement(e) ==
    \/ e.kind = "other"
    \/ /\ e.kind = "dict"
       /\ \/ ~({"dependent_step", "required_step"} \subseteq DOMAIN e.v)
          \/ "type" \in DOMAIN e.v /\ e.v.type \notin {"simple", "conditional"}

HasInvalidElement(a) ==
    \/ /\ "steps" \in DOMAIN a
       /\ \E k \in DOMAIN a.steps : InvalidStepElement(a.steps[k])
    \/ /\ "dependencies" \in DOMAIN a
       /\ \E i \in DOMAIN a.dependencies : InvalidDependencyElement(a.dependencies[i])

\* C1: create, update, acreate and aupdate called with an invalid step or
\* dependency raise ValidationError, and the transport has not been called.
C1_InvalidElementRaisesBeforeTransport ==
    (op \in {"create", "update", "acreate", "aupdate"} /\ HasInvalidElement(args))
        => /\ result.k = "raise"
           /\ result.exc.cls = "ValidationError"
           /\ calls = <<>>

\* C1 witness: aupdate has raised ValidationError for valid steps followed by
\* a dependency of an unknown type, without a transport call
C1_Witness ==
    /\ op = "aupdate"
    /\ "steps" \in DOMAIN args
    /\ \A k \in DOMAIN args.steps : ~InvalidStepElement(args.steps[k])
    /\ "dependencies" \in DOMAIN args
    /\ \E i \in DOMAIN args.dependencies :
          /\ args.dependencies[i].kind = "dict"
          /\ "type" \in DOMAIN args.dependencies[i].v
          /\ args.dependencies[i].v.type = "bogus"
    /\ result.k = "raise"
    /\ result.exc.cls = "ValidationError"
    /\ calls = <<>>

UpdateFields == {"name", "description", "steps", "dependencies", "config"}

\* C2: update and aupdate send at most one request, none only when they raise
\* ValidationError; the request is a PATCH to /v1/chains/{chain_id} whose body
\* has exactly the supplied arguments as keys, and with only description
\* supplied the body is {"description": value}.
C2_UpdateSendsOnlySuppliedFields ==
    op \in {"update", "aupdate"} =>
        /\ Len(calls) <= 1
        /\ calls = <<>> => (result.k = "raise" /\ result.exc.cls = "ValidationError")
        /\ calls # <<>> =>
              /\ calls[1].fn = (IF op = "update" THEN "request" ELSE "arequest")
              /\ calls[1].method = "PATCH"
              /\ calls[1].path = <<"v1", "chains", args.chain_id>>
              /\ DOMAIN calls[1].data = DOMAIN args \cap UpdateFields
              /\ \A k \in DOMAIN calls[1].data \cap {"name", "description", "config"} :
                    calls[1].data[k] # Null
              /\ DOMAIN args = {"chain_id", "description"} =>
                    calls[1].data = [description |-> args.description]

\* C2 witness: update with only description has sent {"description": value}
C2_Witness ==
    /\ op = "update"
    /\ DOMAIN args = {"chain_id", "description"}
    /\ Len(calls) = 1
    /\ calls[1].method = "PATCH"
    /\ calls[1].data = [description |-> "Updated description"]

\* a frame that cannot be parsed as a ChainExecutionEvent
Malformed(f) ==
    \/ "event_type" \notin DOMAIN f
    \/ "chain_id" \notin DOMAIN f
    \/ f.event_type \notin {"step_started", "step_completed", "step_failed",
                            "chain_completed", "chain_failed"}

\* the event of a well-formed frame: its fields, step_id None and data {} when
\* the frame has none
EventOf(f) ==
    [event_type |-> f.event_type, chain_id |-> f.chain_id,
     step_id |-> IF "step_id" \in DOMAIN f THEN f.step_id ELSE Null,
     data |-> IF "data" \in DOMAIN f THEN f.data ELSE EmptyMap]

\* C3: while the transport's frames are well-formed and it has not raised,
\* the events yielded by stream and astream are the frames' events, one per
\* frame in the same order, one pull each, and the generator has ended exactly
\* when the transport's sequence has ended.
C3_StreamYieldsEachFrameInOrder ==
    (/\ gen.fn \in {"stream", "astream"}
     /\ gen.source # "raised"
     /\ \A i \in DOMAIN gen.frames : ~Malformed(gen.frames[i]))
        => /\ Len(events) = Len(gen.frames)
           /\ \A i \in DOMAIN events : events[i] = EventOf(gen.frames[i])
           /\ gen.source = "open" =>
                 /\ gen.pulls = Len(gen.frames)
                 /\ gen.state \in {"created", "suspended"}
                 /\ gen.pulls > 0 => gen.last = Yield(events[Len(events)])
           /\ gen.source = "ended" =>
                 /\ gen.pulls = Len(gen.frames) + 1
                 /\ gen.state = "finished"
                 /\ gen.last = StopIteration

\* C3 witness: astream has yielded the events of two different well-formed
\* frames and ended with the transport
C3_Witness ==
    /\ gen.fn = "astream"
    /\ gen.source = "ended"
    /\ Len(gen.frames) >= 2
    /\ \A i \in DOMAIN gen.frames : ~Malformed(gen.frames[i])
    /\ gen.frames[1] # gen.frames[2]
    /\ Len(events) = Len(gen.frames)
    /\ gen.last = StopIteration

RunPath == <<"v1", "chains", args.chain_id, "run">>

\* C7: run and arun without stream make exactly one request call (POST
\* /v1/chains/{chain_id}/run, stream false) and no streaming call; with stream
\* they make no request call, and from the first pull on exactly one streaming
\* call to the same path with stream true, the one stream or astream makes for
\* these arguments, yielding the events of the frames.
C7_RunDelegatesStreaming ==
    op \in {"run", "arun"} =>
        IF args.stream = "false"
        THEN /\ Len(calls) = 1
             /\ calls[1].fn = (IF op = "run" THEN "request" ELSE "arequest")
             /\ calls[1].method = "POST"
             /\ calls[1].path = RunPath
             /\ calls[1].data.stream = "false"
             /\ gen.state = "none"
        ELSE /\ \A i \in DOMAIN calls : calls[i].fn \notin {"request", "arequest"}
             /\ Len(calls) = (IF gen.pulls > 0 THEN 1 ELSE 0)
             /\ result = Generator
             /\ gen.pulls > 0 =>
                   /\ calls[1].fn = (IF op = "run" THEN "stream" ELSE "astream")
                   /\ calls[1].method = "POST"
                   /\ calls[1].path = RunPath
                   /\ calls[1].data.stream = "true"
                   /\ calls[1] =
                         (IF op = "run"
                          THEN stream_call(Restrict(args, DOMAIN args \ {"stream"}))
                          ELSE astream_call(Restrict(args, DOMAIN args \ {"stream"})))
             /\ \A i \in DOMAIN events : events[i] = EventOf(gen.frames[i])
             /\ (\A i \in DOMAIN gen.frames : ~Malformed(gen.frames[i]))
                    => Len(events) = Len(gen.frames)

\* C7 witness: run with stream has been consumed for two events after one
\* streaming call
C7_Witness ==
    /\ op = "run"
    /\ args.stream = "true"
    /\ Len(calls) = 1
    /\ calls[1].fn = "stream"
    /\ Len(events) = 2
    /\ gen.pulls = 2

CreateFields == {"description", "steps", "dependencies", "config"}

C9_ElementsHoldOnlyFieldsSet ==
    (op \in {"create", "update", "acreate", "aupdate"} /\ Len(calls) = 1) =>
        /\ "steps" \in DOMAIN args =>
              \A k \in DOMAIN args.steps :
                  args.steps[k].kind = "dict" =>
                      calls[1].data.steps[k] = args.steps[k].v
        /\ "dependencies" \in DOMAIN args =>
              \A i \in DOMAIN args.dependencies :
                  args.dependencies[i].kind = "dict" =>
                      calls[1].data.dependencies[i] = args.dependencies[i].v

---------------------------------------------------------------------------
(* Properties of HTTPTransport and of the ChainClient on it (specification
   SpecHTTP) *)

\* the error class the taxonomy gives a status
StatusClass(status) ==
    IF status = 401 THEN "AuthenticationError"
    ELSE IF status = 429 THEN "RateLimitError"
    ELSE IF status >= 500 THEN "ServerError"
    ELSE "APIError"

\* the transport function has run for an answer of status >= 400
ErrorAnswered ==
    /\ http.used
    /\ http.o # NotCalled
    /\ http.x.net = "ok"
    /\ http.x.status >= 400

\* C5: for an answer of status >= 400 to request, arequest, stream or astream
\* the transport raises the error class of the status, and no frame is
\* yielded.
C5_ErrorClassByStatus ==
    ErrorAnswered =>
        /\ http.o.k = "raise"
        /\ http.o.exc.cls = StatusClass(http.x.status)
        /\ gen.frames = <<>>
        /\ events = <<>>

\* a body that supplies no message: empty, or an object without error, or
\* whose error is an object without message
NoMessage(body) ==
    \/ body.kind = "empty"
    \/ /\ body.kind = "json"
       /\ body.doc.t = "object"
       /\ \/ "error" \notin DOMAIN body.doc.v
          \/ /\ body.doc.v.error.t = "object"
             /\ "message" \notin DOMAIN body.doc.v.error.v

\* C6: the error request raises for a status >= 400 has the class of the
\* status whatever the body is, and its message contains "Unknown error" when
\* the body supplies no message.
C6_ErrorChosenByStatusAlone ==
    (ErrorAnswered /\ http.fn = "request") =>
        /\ http.o.k = "raise"
        /\ http.o.exc.cls = StatusClass(http.x.status)
        /\ NoMessage(http.x.body) =>
              \E i \in DOMAIN http.o.exc.message :
                  http.o.exc.message[i] = "Unknown error"

\* C10: a ChainClient operation whose 2xx answer has a body that is no JSON
\* raises ValidationError, and so does the pull of a stream that reads a frame
\* that is no JSON.
C10_UnparseableIsValidationError ==
    /\ (/\ http.used
        /\ http.fn \in {"request", "arequest"}
        /\ http.x.net = "ok"
        /\ http.x.status < 400
        /\ http.x.body.kind = "text")
           => (result.k = "raise" /\ result.exc.cls = "ValidationError")
    /\ (/\ http.used
        /\ http.sse # <<>>
        /\ http.sse[Len(http.sse)].kind = "invalid"
        /\ gen.pulls = Len(http.sse))
           => (gen.last.k = "raise" /\ gen.last.exc.cls = "ValidationError")

---------------------------------------------------------------------------
(* Error propagation and results of the ChainClient (specification Spec) *)

RequestOps ==
    {"create", "get", "list", "update", "delete", "run",
     "acreate", "aget", "alist", "aupdate", "adelete", "arun"}

\* C11: an APIError, AuthenticationError, RateLimitError or ServerError the
\* transport raises reaches the caller as that same exception: a request
\* operation raises it, and a stream raises it on the pull that met it, after
\* the events of the frames before it.
C11_TransportErrorReachesCaller ==
    /\ (/\ op \in RequestOps
        /\ http.o.k = "raise"
        /\ http.o.exc.cls \in
              {"APIError", "AuthenticationError", "RateLimitError", "ServerError"})
           => (result.k = "raise" /\ result.exc = http.o.exc)
    /\ (/\ gen.source = "raised"
        /\ gen.exc.cls \in
              {"APIError", "AuthenticationError", "RateLimitError", "ServerError"})
           => /\ gen.state = "finished"
              /\ Len(events) = Len(gen.frames)
              /\ gen.pulls >= Len(gen.frames) + 1
              /\ gen.pulls = Len(gen.frames) + 1 =>
                    (gen.last.k = "raise" /\ gen.last.exc = gen.exc)
              /\ gen.pulls > Len(gen.frames) + 1 => gen.last = StopIteration

\* C11 witness: a stream has raised the transport's RateLimitError after two
\* events
C11_Witness ==
    /\ gen.fn = "stream"
    /\ gen.source = "raised"
    /\ Len(events) = 2
    /\ gen.last.k = "raise"
    /\ gen.last.exc.cls = "RateLimitError"

\* a response document that is no well-formed chain: no object, or an object
\* without id, or with a step without type
MalformedChain(j) ==
    \/ j.t # "object"
    \/ "id" \notin DOMAIN j.v
    \/ /\ "steps" \in DOMAIN j.v
       /\ \E k \in DOMAIN j.v.steps : "type" \notin DOMAIN j.v.steps[k]

\* a response document that is no well-formed list: no object, no chains
\* array, or an element of it without id
MalformedList(j) ==
    \/ j.t # "object"
    \/ "chains" \notin DOMAIN j.v
    \/ \E i \in DOMAIN j.v.chains : "id" \notin DOMAIN j.v.chains[i]

\* a response document that is no well-formed execution: no object, no
\* chain_id, or a status outside {running, completed, failed}
MalformedExecution(j) ==
    \/ j.t # "object"
    \/ "chain_id" \notin DOMAIN j.v
    \/ "status" \notin DOMAIN j.v
    \/ j.v.status \notin {"running", "completed", "failed"}

InvalidResponse == result.k = "raise" /\ result.exc.cls = "ValidationError"

C13_AtMostOneTransportCall ==
    /\ Len(calls) <= 1
    /\ (op \in RequestOps /\ http.o # NotCalled) => Len(calls) = 1
    /\ gen.state \in {"suspended", "finished"} => Len(calls) = 1

\* C13 witness: get has raised what the transport raised, after one call
C13_Witness ==
    /\ op = "get"
    /\ http.o.k = "raise"
    /\ http.o.exc.cls = "ServerError"
    /\ result.k = "raise"
    /\ Len(calls) = 1

\* C13 witness of the streaming case: a frame did not parse, after one call
C13_WitnessFrame ==
    /\ gen.fn = "stream"
    /\ gen.state = "finished"
    /\ gen.last.k = "raise"
    /\ gen.last.exc.cls = "ValidationError"
    /\ Len(calls) = 1

----------------------------------------------------------------------------
(* The ChainClient over the HTTPTransport: delete, streams and status codes
   (specification SpecHTTP) *)

\* C14: delete and adelete make one DELETE to /v1/chains/{chain_id} without
\* body and query parameters and return nothing, and when the server answers
\* 2xx with an empty body the call completes without raising.
C14_DeleteCompletesOnEmptyBody ==
    (op \in {"delete", "adelete"} /\ http.used) =>
        /\ Len(calls) = 1
        /\ DOMAIN calls[1] = {"fn", "method", "path"}
        /\ calls[1].method = "DELETE"
        /\ calls[1].path = <<"v1", "chains", args.chain_id>>
        /\ result.k = "return" => result.v = Empty
        /\ (/\ http.x.net = "ok"
            /\ http.x.status \in 200..299
            /\ http.x.body.kind = "empty") => result = Return(Empty)

IsData(e) == e.kind = "data"

\* the decoded data of the data events among the events read so far
DataOf(sse) ==
    LET d == SelectSeq(sse, IsData) IN [i \in DOMAIN d |-> d[i].f]

\* a streaming call of the transport has been answered with an event stream
EventStreamAnswered(fn) ==
    /\ http.fn = fn
    /\ gen.pulls >= 1
    /\ http.x.net = "ok"
    /\ http.x.status < 400

\* the transport has yielded the data of every data event read, in order; the
\* sentinel is the last event read and ends the sequence
YieldsFramesUntilDone ==
    /\ http.o = Opened
    /\ gen.frames = DataOf(http.sse)
    /\ \A i \in DOMAIN http.sse :
          http.sse[i].kind = "done" =>
              /\ i = Len(http.sse)
              /\ gen.state = "finished"
              /\ gen.source = "ended"

\* C15: HTTPTransport.stream and HTTPTransport.astream yield the decoded JSON
\* of every data frame of the answer before the first [DONE], in arrival
\* order, never the sentinel, and nothing after it.
C15_StreamYieldsFramesUntilDone ==
    (EventStreamAnswered("stream") \/ EventStreamAnswered("astream"))
        => YieldsFramesUntilDone

\* C15, the half that holds: HTTPTransport.stream yields the data of every
\* data event before [DONE], in order, and nothing after
C15_SyncStreamYieldsFramesUntilDone ==
    EventStreamAnswered("stream") => YieldsFramesUntilDone

\* C15: stream has yielded two frames and ended at the sentinel
C15_SyncWitness ==
    /\ EventStreamAnswered("stream")
    /\ Len(gen.frames) = 2
    /\ Len(http.sse) = 3
    /\ http.sse[3].kind = "done"

\* the response that HTTPTransport.astream reads has been released and its
\* session closed: arequest(stream=True) has returned
Released == http.fn = "astream" /\ http.read \in {"closed", "buffered"}

C16_NoReadAfterAbandon ==
    (gen.fn = "astream" /\ gen.consumer = "stopped") =>
        /\ Released
        /\ Len(http.sse) <= gen.pulls

\* C17: stream, astream and run/arun with stream=true call the transport only
\* when the consumer asks for the first event, and the frames pulled from the
\* transport never outnumber the events the consumer has asked for.
C17_NoCallBeforeFirstPullNoBufferAhead ==
    gen.fn \in {"stream", "astream"} =>
        /\ result = Generator
        /\ gen.pulls = 0 => (gen.state = "created" /\ calls = <<>>)
        /\ gen.state = "created" => (calls = <<>> /\ gen.frames = <<>>)
        /\ Len(gen.frames) <= gen.pulls
        /\ Len(events) <= Len(gen.frames)

\* C17 witness: arun with stream=true, two events asked for, two frames pulled
C17_Witness ==
    /\ op = "arun"
    /\ args.stream = "true"
    /\ gen.state = "suspended"
    /\ gen.pulls = 2
    /\ Len(gen.frames) = 2
    /\ Len(calls) = 1

\* C17 witness of the start: run with stream=true has returned its generator
\* and the transport has not been called
C17_WitnessCreated ==
    /\ op = "run"
    /\ args.stream = "true"
    /\ gen.state = "created"
    /\ calls = <<>>

C19_ErrorCarriesStatus ==
    (ErrorAnswered /\ http.o.k = "raise" /\ http.o.exc.cls \in APIErrorClasses)
        => http.o.exc.status_code = <<http.x.status>>

\* C19, the part that holds: the plain APIError raised by the error handler
\* has the status of the answer as its status_code
C19_PlainAPIErrorCarriesStatus ==
    (/\ ErrorAnswered
     /\ http.o.k = "raise"
     /\ http.o.exc.cls = "APIError"
     /\ http.o.exc # RequestFailed)
        => http.o.exc.status_code = <<http.x.status>>

----------------------------------------------------------------------------
(* Dependencies in the body of create and update (specification Spec) *)

\* the edges of a sequence of dependencies, supplied or in a body
Edge(d) == <<d.dependent_step, d.required_step>>

\* C20: create and update (and acreate, aupdate) called with dependencies
\* that are each valid put every one of them into the request body, same
\* count and same order, whether or not they form self-loops or cycles,
\* repeat one another or name steps that are not among the steps; the call is
\* not rejected.
C20_DependenciesSentAsSupplied ==
    (/\ op \in {"create", "update", "acreate", "aupdate"}
     /\ "dependencies" \in DOMAIN args
     /\ ~HasInvalidElement(args)) =>
        /\ Len(calls) = 1
        /\ "dependencies" \in DOMAIN calls[1].data
        /\ Len(calls[1].data.dependencies) = Len(args.dependencies)
        /\ \A i \in DOMAIN args.dependencies :
              Edge(calls[1].data.dependencies[i]) = Edge(args.dependencies[i].v)

\* C20 witness: create without steps has sent a cycle of two dependencies in
\* the supplied order
C20_Witness ==
    /\ op = "create"
    /\ "steps" \notin DOMAIN args
    /\ "dependencies" \in DOMAIN args
    /\ Len(calls) = 1
    /\ Len(calls[1].data.dependencies) = 2
    /\ Edge(calls[1].data.dependencies[1]) = <<"step1", "step2">>
    /\ Edge(calls[1].data.dependencies[2]) = <<"step2", "step1">>

\* C20 witness of a self-loop sent twice by update
C20_WitnessSelfLoop ==
    /\ op = "update"
    /\ "dependencies" \in DOMAIN args
    /\ Len(calls) = 1
    /\ Len(calls[1].data.dependencies) = 2
    /\ \A i \in 1..2 : Edge(calls[1].data.dependencies[i]) = <<"step1", "step1">>

----------------------------------------------------------------------------
(* The entity contract of dependencies and steps (specification Spec) *)

\* a dependency, raw or typed, of type conditional that has no condition
Unconditioned(d) ==
    /\ "type" \in DOMAIN d
    /\ d.type = "conditional"
    /\ "condition" \in DOMAIN d => d.condition = Null

\* C21: create and update given a conditional dependency without condition
\* raise ValidationError without calling the transport, and a chain response
\* that holds one fails to parse with ValidationError.
C21_ConditionalNeedsCondition ==
    /\ (/\ op \in {"create", "update", "acreate", "aupdate"}
        /\ "dependencies" \in DOMAIN args
        /\ \E i \in DOMAIN args.dependencies :
              /\ args.dependencies[i].kind \in {"dict", "entity"}
              /\ Unconditioned(args.dependencies[i].v))
           => (InvalidResponse /\ calls = <<>>)
    /\ (/\ op \in {"create", "get", "update", "acreate", "aget", "aupdate"}
        /\ http.o.k = "return"
        /\ http.o.json.t = "object"
        /\ "dependencies" \in DOMAIN http.o.json.v
        /\ \E i \in DOMAIN http.o.json.v.dependencies :
              Unconditioned(http.o.json.v.dependencies[i]))
           => InvalidResponse

\* the same step in its other form: the typed entity of a raw mapping, the
\* mapping of the fields of a typed entity
OtherStepForm(e) ==
    IF e.kind = "dict" THEN [kind |-> "entity", v |-> ChainStep(e.v)]
    ELSE [kind |-> "dict", v |-> e.v]

OtherDependencyForm(e) ==
    IF e.kind = "dict" THEN [kind |-> "entity", v |-> ChainDependency(e.v)]
    ELSE [kind |-> "dict", v |-> e.v]

\* the arguments a with every step and dependency in its other form
OtherForms(a) ==
    [k \in DOMAIN a |->
        CASE k = "steps" -> [s \in DOMAIN a.steps |-> OtherStepForm(a.steps[s])]
          [] k = "dependencies" ->
                 [i \in DOMAIN a.dependencies |->
                     OtherDependencyForm(a.dependencies[i])]
          [] OTHER -> a[k]]

\* C22: the request body of create and update (and acreate, aupdate) is the
\* same whether a step or dependency is supplied as a typed entity or as a
\* raw mapping of the same content.
C22_EntityAndMappingSameBody ==
    (/\ op \in {"create", "update", "acreate", "aupdate"}
     /\ ~HasInvalidElement(args)) =>
        /\ Len(calls) = 1
        /\ op = "create" => calls[1].data = create_data(OtherForms(args)).v
        /\ op = "update" => calls[1].data = update_data(OtherForms(args)).v
        /\ op = "acreate" => calls[1].data = acreate_data(OtherForms(args)).v
        /\ op = "aupdate" => calls[1].data = aupdate_data(OtherForms(args)).v

\* C22 witness: update has sent a body for a minimal raw step and a typed
\* dependency
C22_Witness ==
    /\ op = "update"
    /\ Len(calls) = 1
    /\ "steps" \in DOMAIN args
    /\ \E k \in DOMAIN args.steps :
          /\ args.steps[k].kind = "dict"
          /\ DOMAIN args.steps[k].v = StepRequired
          /\ DOMAIN calls[1].data.steps[k] = StepFields \ {"name", "description"}
    /\ "dependencies" \in DOMAIN args
    /\ \E i \in DOMAIN args.dependencies : args.dependencies[i].kind = "entity"

----------------------------------------------------------------------------
(* The blocking and the async variant of each operation (specification Spec) *)

\* what goes over the wire in a transport call: method, path, query
\* parameters and body, not the transport function that was called
Wire(call) == Restrict(call, DOMAIN call \ {"fn"})
Wires(cs) == [i \in DOMAIN cs |-> Wire(cs[i])]

\* the class of an outcome: what was returned, or the class of the error
Outcome(r) == [k |-> r.k, v |-> r.v, cls |-> r.exc.cls]

\* the calls and the result of the blocking request operation named name,
\* for the arguments a and the outcome o of the transport
BlockingCalls(name, a) ==
    CASE name = "create" ->
             IF create_data(a).ok THEN <<create_call(create_data(a).v)>> ELSE <<>>
      [] name = "update" ->
             IF update_data(a).ok THEN <<update_call(a, update_data(a).v)>> ELSE <<>>
      [] name = "get" -> <<get_call(a)>>
      [] name = "list" -> <<list_call(a)>>
      [] name = "delete" -> <<delete_call(a)>>
      [] name = "run" -> <<run_call(a)>>

BlockingResult(name, a, o) ==
    CASE name = "create" ->
             IF create_data(a).ok THEN create_response(o)
             ELSE Raise(ValidationError("Invalid chain step or dependency"))
      [] name = "update" ->
             IF update_data(a).ok THEN update_response(o)
             ELSE Raise(ValidationError("Invalid chain step or dependency"))
      [] name = "get" -> get_response(o)
      [] name = "list" -> list_response(o)
      [] name = "delete" -> delete_response(o)
      [] name = "run" -> run_response(o)

\* the same of the async request operation a<name>
AsyncCalls(name, a) ==
    CASE name = "create" ->
             IF acreate_data(a).ok THEN <<acreate_call(acreate_data(a).v)>> ELSE <<>>
      [] name = "update" ->
             IF aupdate_data(a).ok THEN <<aupdate_call(a, aupdate_data(a).v)>> ELSE <<>>
      [] name = "get" -> <<aget_call(a)>>
      [] name = "list" -> <<alist_call(a)>>
      [] name = "delete" -> <<adelete_call(a)>>
      [] name = "run" -> <<arun_call(a)>>

AsyncResult(name, a, o) ==
    CASE name = "create" ->
             IF acreate_data(a).ok THEN acreate_response(o)
             ELSE Raise(ValidationError("Invalid chain step or dependency"))
      [] name = "update" ->
             IF aupdate_data(a).ok THEN aupdate_response(o)
             ELSE Raise(ValidationError("Invalid chain step or dependency"))
      [] name = "get" -> aget_response(o)
      [] name = "list" -> alist_response(o)
      [] name = "delete" -> adelete_response(o)
      [] name = "run" -> arun_response(o)

BlockingOps == {"create", "get", "list", "update", "delete", "run"}

\* the blocking operation of an async one
Blocking(name) ==
    CASE name = "acreate" -> "create" [] name = "aget" -> "get"
      [] name = "alist" -> "list" [] name = "aupdate" -> "update"
      [] name = "adelete" -> "delete" [] name = "arun" -> "run"

\* the events and the last outcome of a generator are those the event
\* function event(_) gives for the frames the transport gave
EventsBy(event(_)) ==
    /\ \A i \in DOMAIN events : event(gen.frames[i]) = Yield(events[i])
    /\ Len(gen.frames) > Len(events) =>
          /\ Len(gen.frames) = Len(events) + 1
          /\ event(gen.frames[Len(gen.frames)]).k = "raise"
          /\ gen.state = "finished"
    /\ (gen.state = "suspended" \/ gen.source # "open") => Len(events) = Len(gen.frames)

\* C23: a blocking operation and its async counterpart, given the same
\* arguments and the same behaviour of the transport, make the same transport
\* call (method, path, query parameters, body) and give the same result, the
\* same events or an error of the same class.
C23_BlockingAndAsyncAgree ==
    /\ (op \in BlockingOps /\ gen.state = "none") =>
          /\ Wires(calls) = Wires(AsyncCalls(op, args))
          /\ Outcome(result) = Outcome(AsyncResult(op, args, http.o))
    /\ (op \in {"a" \o n : n \in BlockingOps} /\ gen.state = "none") =>
          /\ Wires(calls) = Wires(BlockingCalls(Blocking(op), args))
          /\ Outcome(result) = Outcome(BlockingResult(Blocking(op), args, http.o))
    /\ gen.fn = "stream" =>
          /\ Wires(calls) = IF gen.state = "created" THEN <<>>
                            ELSE <<Wire(astream_call(args))>>
          /\ EventsBy(astream_event)
    /\ gen.fn = "astream" =>
          /\ Wires(calls) = IF gen.state = "created" THEN <<>>
                            ELSE <<Wire(stream_call(args))>>
          /\ EventsBy(stream_event)

\* C23 witness: arun without stream and with a config has returned the
\* execution that run returns for the same response
C23_Witness ==
    /\ op = "arun"
    /\ args.stream = "false"
    /\ "config" \in DOMAIN args
    /\ Len(calls) = 1
    /\ Wire(calls[1]) = Wire(run_call(args))
    /\ result.k = "return"
    /\ result = run_response(http.o)

\* C23 witness of the streams: astream has yielded an event and then raised
\* ValidationError for a frame, as stream does for these frames
C23_WitnessStream ==
    /\ op = "astream"
    /\ Len(events) = 1
    /\ Len(gen.frames) = 2
    /\ gen.last.k = "raise"
    /\ stream_event(gen.frames[2]).k = "raise"

----------------------------------------------------------------------------
(* Parsing and serializing a chain (specification Spec) *)

\* C24: a Chain parsed from a response, serialized with the fields that are
\* None left out and parsed again is equal to the first Chain.
C24_ParseSerializeRoundTrip ==
    /\ (/\ op \in {"create", "get", "update", "acreate", "aget", "aupdate"}
        /\ result.k = "return") =>
          /\ ChainValid(ChainDict(result.v))
          /\ Chain(ChainDict(result.v)) = result.v
    /\ (op \in {"list", "alist"} /\ result.k = "return") =>
          \A i \in DOMAIN result.v :
              /\ ChainValid(ChainDict(result.v[i]))
              /\ Chain(ChainDict(result.v[i])) = result.v[i]

\* C24 witness: get has parsed a chain with a named step and a dependency, and
\* the serialized chain leaves out what is None
C24_Witness ==
    /\ op = "get"
    /\ result.k = "return"
    /\ result.v.steps # Empty
    /\ \E k \in DOMAIN result.v.steps : result.v.steps[k].name # Null
    /\ Len(result.v.dependencies) = 1
    /\ result.v.dependencies[1].condition = Null
    /\ "condition" \notin DOMAIN ChainDict(result.v).dependencies[1]
    /\ Chain(ChainDict(result.v)) = result.v

\* C24 witness of a chain that holds its id only
C24_WitnessMinimal ==
    /\ op = "aget"
    /\ result.k = "return"
    /\ DOMAIN ChainDict(result.v) = {"id", "steps", "dependencies", "config"}
    /\ Chain(ChainDict(result.v)) = result.v

----------------------------------------------------------------------------
(* Properties of IntelliRouter and Configuration (specification SpecClient) *)

\* an API key is to be had from what IntelliRouter was given: the argument,
\* the supplied configuration, the environment or the config file
KeyAvailable(g) ==
    \/ "api_key" \in DOMAIN g.args
    \/ Len(g.config) = 1 /\ g.config[1].api_key # ""
    \/ "api_key" \in DOMAIN g.env
    \/ g.file.exists /\ "api_key" \in DOMAIN g.file.data

\* C25: IntelliRouter(...) raises ConfigurationError, and has no transport and
\* constructed none, when no API key is available from the argument, the
\* supplied configuration, the environment or the config file, also when a
\* custom transport is supplied; with a key available it succeeds and a
\* supplied transport is its transport.
C25_KeyRequiredAtConstruction ==
    \A c \in Clients :
        clients[c].state # "none" =>
            /\ ~KeyAvailable(clients[c].given) =>
                  /\ clients[c].state = "raised"
                  /\ clients[c].exc.cls = "ConfigurationError"
                  /\ ~clients[c].constructed
                  /\ clients[c].transport = ""
            /\ KeyAvailable(clients[c].given) =>
                  /\ clients[c].state = "ready"
                  /\ Len(clients[c].given.transport) = 1 =>
                        clients[c].transport = clients[c].given.transport[1]

\* C25, the half that holds: without a key anywhere ConfigurationError is
\* raised before a transport is constructed or taken, and a client that is
\* constructed keeps the transport it was given
C25_NoKeyRaisesBeforeTransport ==
    \A c \in Clients :
        clients[c].state # "none" =>
            /\ ~KeyAvailable(clients[c].given) =>
                  /\ clients[c].state = "raised"
                  /\ clients[c].exc.cls = "ConfigurationError"
                  /\ ~clients[c].constructed
                  /\ clients[c].transport = ""
            /\ (clients[c].state = "ready" /\ Len(clients[c].given.transport) = 1)
                  => clients[c].transport = clients[c].given.transport[1]

\* the value of an environment variable or of a built-in default, as the
\* field's type
Typed(f, s) == IF f \in IntFields THEN IntOf[s] ELSE s

\* the value of field f by the precedence explicit argument > environment
\* variable > config file > built-in default
ByPrecedence(f) ==
    IF f \in DOMAIN cfg.explicit THEN cfg.explicit[f]
    ELSE IF f \in DOMAIN cfg.env THEN Typed(f, cfg.env[f])
    ELSE IF cfg.file.exists /\ f \in DOMAIN cfg.file.data THEN cfg.file.data[f]
    ELSE Typed(f, ConfigDefault(f))

\* C26: Configuration resolves api_key, base_url, timeout and max_retries by
\* the precedence explicit argument > environment variable > config file >
\* built-in default.
C26_ResolvedByPrecedence ==
    cfg.made => \A f \in ConfigFields : cfg.v[f] = ByPrecedence(f)

\* C26, the part that holds: api_key is resolved by that precedence, and so is
\* every field that an explicit argument or a non-zero environment variable
\* supplies
C26_ApiKeyByPrecedence ==
    cfg.made =>
        /\ cfg.v.api_key = ByPrecedence("api_key")
        /\ \A f \in ConfigFields :
              (\/ f \in DOMAIN cfg.explicit
               \/ f \in DOMAIN cfg.env /\ cfg.env[f] # "0")
                  => cfg.v[f] = ByPrecedence(f)

Accessors == {"chat", "chains", "models"}

\* C27: each accessor of an IntelliRouter has constructed its sub-client at
\* most once, what an access returns is the memoized sub-client, every
\* sub-client holds the transport of its IntelliRouter, and no sub-client
\* belongs to two IntelliRouters.
C27_SubClientsMemoizedPerInstance ==
    /\ \A c \in Clients :
          /\ \A a \in Accessors :
                /\ clients[c].made[a] <= 1
                /\ clients[c].made[a] = 0 <=> clients[c][a] = NoObject
                /\ clients[c][a] # NoObject =>
                      /\ clients[c][a].transport = clients[c].transport
                      /\ clients[c][a].owner = c
          /\ clients[c].accesses > 0 =>
                \E a \in Accessors : clients[c].returned = clients[c][a]
          /\ clients[c].state # "ready" => clients[c].accesses = 0
    /\ \A c, d \in Clients :
          c # d => \A a, b \in Accessors :
                      clients[c][a] # NoObject => clients[c][a] # clients[d][b]

\* C27 witness: chains has been accessed twice on one IntelliRouter and once
\* on the other, both given the same custom transport
C27_Witness ==
    /\ clients["client1"].accesses = 2
    /\ clients["client1"].made = [chat |-> 0, chains |-> 1, models |-> 0]
    /\ clients["client1"].returned = clients["client1"].chains
    /\ clients["client2"].made.chains = 1
    /\ clients["client1"].transport = clients["client2"].transport
    /\ clients["client1"].chains # clients["client2"].chains

----------------------------------------------------------------------------
(* The response behind a stream of HTTPTransport (specification SpecHTTP) *)

\* C28: while HTTPTransport.astream reads the frames of an answer, the
\* response and the session that arequest(stream=True) opened are open: the
\* response has not been released and reading it does not fail for a closed
\* connection.
C28_ResponseOpenWhileReading ==
    EventStreamAnswered("astream") =>
        /\ http.o.exc.cls # "ClientConnectionError"
        /\ gen.source = "open" => ~Released

\* the sequence of HTTPTransport.stream is over: it has ended or raised, or
\* its consumer has stopped
StreamOver ==
    /\ http.fn = "stream"
    /\ gen.pulls >= 1
    /\ gen.state = "finished" \/ gen.consumer = "stopped"

\* C29: when the sequence of HTTPTransport.stream has ended at [DONE], has
\* ended with an error or has been abandoned, no streamed response is open.
C29_NoOpenResponseAfterStream ==
    StreamOver => http.response # "open"

\* C29, the part that holds: after an answer of status >= 400 and after the
\* end of the body no response is open
C29_NoOpenResponseAfterErrorStatus ==
    (/\ StreamOver
     /\ \/ http.o.k = "raise"
        \/ http.sse # <<>> /\ http.sse[Len(http.sse)].kind = "eof")
        => http.response # "open"

\* C30: in every request body that create or update (or acreate, aupdate)
\* has sent, each entry of the steps mapping is keyed by the id of the step it
\* holds.
C30_StepsKeyedByStepId ==
    (/\ op \in {"create", "update", "acreate", "aupdate"}
     /\ Len(calls) >= 1
     /\ "steps" \in DOMAIN calls[1].data) =>
        \A k \in DOMAIN calls[1].data.steps : calls[1].data.steps[k].id = k

\* C30, the part that holds: each entry of the steps mapping sent is under
\* the key the caller supplied it under
C30_StepsKeyedAsSupplied ==
    (/\ op \in {"create", "update", "acreate", "aupdate"}
     /\ Len(calls) >= 1
     /\ "steps" \in DOMAIN calls[1].data) =>
        /\ "steps" \in DOMAIN args
        /\ DOMAIN calls[1].data.steps = DOMAIN args.steps

=============================================================================
